---- MODULE Spec2Model ----
(***************************************************************************)
(* State-machine model of the stage5-api credit ledger (src/src/lib/db.ts), *)
(* the Stripe webhook (src/unnamed/part_001), the transcription-job        *)
(* routes and completion webhook (src/src/routes/transcribe.ts) and the    *)
(* synchronous routes POST /transcribe and POST /dub with their chains of  *)
(* providers (src/src/routes/transcribe.ts, src/src/routes/dub.ts).        *)
(*                                                                         *)
(* One request is one element of reqs.  Every await of a storage statement *)
(* is one step, so requests interleave between statements, as they do      *)
(* across Worker instances sharing one D1 database.  A request arrives in  *)
(* the step that runs its first statement.                                 *)
(***************************************************************************)
EXTENDS Integers, Sequences, FiniteSets, Bags, TLC

(***************************************************************************)
(* Bounds of the model.                                                    *)
(***************************************************************************)
MaxReq == 3        \* requests started in one behaviour
MaxRetryReq == 4   \* requests started in one behaviour of SpecRetry
MaxJobReq == 4     \* requests started in one behaviour of SpecJob
MaxFaults == 1     \* storage statements that throw in one behaviour

(***************************************************************************)
(* Inputs.                                                                 *)
(***************************************************************************)
Devices == {"d1", "d2"}
ADMIN_DEVICE_ID == "d1"
PACK_IDS == {"HOUR_1", "HOUR_5"}
Keys == {"k1", "k2"}

\* secondsToCredits({seconds, model: "elevenlabs-scribe"}):
\*   Math.ceil(seconds * (0.27 / 3600) * MARGIN / USD_PER_CREDIT), that is
\*   the ceiling of 5.25 * seconds computed in doubles; for 1 to 8 seconds
\*   the quotient lies just above 5.25 * seconds (21.000000000000004 for 4),
\*   so the ceiling is one more than the whole part of 21 * seconds / 4.
secondsToCredits(seconds) ==
  IF seconds = 0 THEN 0 ELSE (21 * seconds) \div 4 + 1

\* the amounts charged: nothing (-1 and 0), and one and two seconds of
\* transcription
Spends == {-1, 0, secondsToCredits(1), secondsToCredits(2)}

\* pack.credits of the pack table (the table with a credits column is not
\* part of the sources at hand; the values are small stand-ins, of the size
\* of the charges).
packs == [HOUR_1 |-> 6, HOUR_5 |-> 12]

VARIABLES
  hasBatch,             \* typeof db.batch === "function"
  credits,              \* table credits: device_id -> credit_balance
  credit_ledger,        \* table credit_ledger: bag of rows
  billing_idempotency,  \* table billing_idempotency: set of rows
  processed_events,     \* table processed_events: set of event_id
  transcription_jobs,   \* table transcription_jobs: job_id -> row
  translation_jobs,     \* table translation_jobs: job_id -> row
  fanout,               \* the locals of synthesizeSegmentsDirect
  txn,                  \* the transaction open on the database handle
  reqs,                 \* bag of the requests started so far
  faults                \* storage statements that have thrown so far

dbVars == <<credits, credit_ledger, billing_idempotency>>
vars == <<hasBatch, credits, credit_ledger, billing_idempotency,
          processed_events, transcription_jobs, translation_jobs, fanout,
          txn, reqs, faults>>

\* no transaction is open: every statement commits by itself
NoTxn == [active |-> FALSE]

\* synthesizeSegmentsDirect has not been called
NoFanOut == [pc |-> "idle"]

(***************************************************************************)
(* A request: the operation, the statement it runs next, its arguments,    *)
(* its locals and what it returned.  Requests with equal records are       *)
(* interchangeable, so reqs is a bag; a request that has returned stays in *)
(* it with pc = "done".                                                    *)
(***************************************************************************)
NoReq ==
  [op |-> "none", pc |-> "done", deviceId |-> "none", spend |-> 0,
   reason |-> "none", idempotencyKey |-> "none", packId |-> "none",
   isAdminReset |-> FALSE, currentBalance |-> 0,
   eventId |-> "none", eventType |-> "none",
   jobId |-> "none", success |-> FALSE, result |-> "none",
   message |-> "none", ok |-> FALSE, ret |-> "none",
   model |-> "none", ttsProvider |-> "none",
   clientAborted |-> FALSE, aborted |-> FALSE,
   usedRelay |-> FALSE, usedElevenLabs |-> FALSE,
   calls |-> << >>, relayError |-> "none", billedModel |-> "none",
   body |-> "none", relay_job_id |-> "none"]

Started == BagToSet(reqs)
InFlight == {r \in Started : r.pc # "done"}
Returned == {r \in Started : r.pc = "done"}

\* Error messages of SQLite that the code inspects.
UNIQUE_ERROR ==
  "UNIQUE constraint failed: billing_idempotency.device_id, billing_idempotency.reason, billing_idempotency.idempotency_key"
NOT_NULL_ERROR == "NOT NULL constraint failed: billing_idempotency.reason"
STORAGE_ERROR == "D1_ERROR: storage unavailable"
NO_ERROR == "ok"

(***************************************************************************)
(* Tables.                                                                 *)
(***************************************************************************)
HasRow(deviceId) == deviceId \in DOMAIN credits

\* INSERT INTO credits ... ON CONFLICT(device_id) DO UPDATE SET
\*   credit_balance = credit_balance + ?
UpsertCredits(deviceId, creditsToAdd) ==
  [d \in DOMAIN credits \cup {deviceId} |->
     IF d = deviceId
       THEN IF HasRow(d) THEN credits[d] + creditsToAdd ELSE creditsToAdd
       ELSE credits[d]]

\* INSERT INTO credits ... VALUES (?, 0, ...) ON CONFLICT DO UPDATE SET
\*   credit_balance = 0
ZeroCredits(deviceId) ==
  [d \in DOMAIN credits \cup {deviceId} |->
     IF d = deviceId THEN 0 ELSE credits[d]]

LedgerRow(deviceId, delta, reason, key) ==
  [device_id |-> deviceId, delta |-> delta, reason |-> reason, key |-> key]

\* recordLedger: INSERT INTO credit_ledger (device_id, delta, reason, meta)
recordLedger_NoInsert(ledger, deviceId, delta, reason, key) == ledger
recordLedger(ledger, deviceId, delta, reason, key) ==
  ledger (+) SetToBag({LedgerRow(deviceId, delta, reason, key)})

RECURSIVE SumRows(_, _)
SumRows(ledger, rows) ==
  IF rows = {} THEN 0
  ELSE LET r == CHOOSE x \in rows : TRUE
       IN  r.delta * CopiesIn(r, ledger) + SumRows(ledger, rows \ {r})

\* sum(delta) of the ledger rows of one device
LedgerSum(deviceId) ==
  SumRows(credit_ledger,
          {r \in BagToSet(credit_ledger) : r.device_id = deviceId})

(***************************************************************************)
(* Requests.                                                               *)
(***************************************************************************)
\* request r has run a statement and is now r2
Become(r, r2) == reqs' = (reqs (-) SetToBag({r})) (+) SetToBag({r2})

\* the request moves on to its next statement
Goto(r, pc) == Become(r, [r EXCEPT !.pc = pc])

\* the request's operation returns ret to the route that called it
Return(r, ret) == Become(r, [r EXCEPT !.pc = "done", !.ret = ret])

At(r, pc) == r.pc = pc

\* the copies of the elements of rows in bag
RECURSIVE Copies(_, _)
Copies(bag, rows) ==
  IF rows = {} THEN 0
  ELSE LET x == CHOOSE y \in rows : TRUE
       IN  CopiesIn(x, bag) + Copies(bag, rows \ {x})

\* the requests that may run a statement now: those in flight, and any of
\* calls, which arrives with its first statement
PendingOf(calls, max) ==
  InFlight \cup (IF BagCardinality(reqs) < max THEN calls ELSE {})

Pending(calls) == PendingOf(calls, MaxReq)

(***************************************************************************)
(* creditDevice: upsert of the balance, then the ledger row.               *)
(***************************************************************************)
\* isAdminReset ? "ADMIN_RESET" : `PACK_${packId.toUpperCase()}`
GrantReason(packId, isAdminReset) ==
  IF isAdminReset THEN "ADMIN_RESET" ELSE "PACK_" \o packId

creditDevice(deviceId, packId, isAdminReset) ==
  [NoReq EXCEPT !.op = "creditDevice", !.pc = "creditDevice:upsert",
                !.deviceId = deviceId, !.packId = packId,
                !.isAdminReset = isAdminReset]

creditDevice_Upsert(r) ==
  /\ At(r, "creditDevice:upsert")
  /\ credits' = UpsertCredits(r.deviceId, packs[r.packId])
  /\ Goto(r, "creditDevice:ledger")
  /\ UNCHANGED <<hasBatch, credit_ledger, billing_idempotency,
                 processed_events, transcription_jobs, translation_jobs, fanout, txn, faults>>

creditDevice_Ledger(r) ==
  /\ At(r, "creditDevice:ledger")
  /\ credit_ledger' =
       recordLedger(credit_ledger, r.deviceId, packs[r.packId],
                    GrantReason(r.packId, r.isAdminReset), "none")
  /\ IF r.op = "stripeWebhook"
       THEN Goto(r, "stripe:markEventProcessed")
       ELSE Return(r, "void")
  /\ UNCHANGED <<hasBatch, credits, billing_idempotency,
                 processed_events, transcription_jobs, translation_jobs, fanout, txn, faults>>

(***************************************************************************)
(* resetCreditsToZero: read the balance, set it to 0, write the ledger.    *)
(***************************************************************************)
resetCreditsToZero(deviceId) ==
  [NoReq EXCEPT !.op = "resetCreditsToZero", !.pc = "reset:getCredits",
                !.deviceId = deviceId]

\* currentRecord?.credit_balance || 0
getCredits(deviceId) == IF HasRow(deviceId) THEN credits[deviceId] ELSE 0

resetCreditsToZero_Get(r) ==
  /\ At(r, "reset:getCredits")
  /\ Become(r, [r EXCEPT !.pc = "reset:upsert",
                         !.currentBalance = getCredits(r.deviceId)])
  /\ UNCHANGED <<hasBatch, dbVars, processed_events, transcription_jobs, translation_jobs, fanout, txn, faults>>

resetCreditsToZero_Upsert(r) ==
  /\ At(r, "reset:upsert")
  /\ credits' = ZeroCredits(r.deviceId)
  /\ IF r.currentBalance > 0
       THEN Goto(r, "reset:ledger")
       ELSE Return(r, "void")
  /\ UNCHANGED <<hasBatch, credit_ledger, billing_idempotency,
                 processed_events, transcription_jobs, translation_jobs, fanout, txn, faults>>

resetCreditsToZero_Ledger(r) ==
  /\ At(r, "reset:ledger")
  /\ credit_ledger' =
       recordLedger(credit_ledger, r.deviceId, -r.currentBalance,
                    "ADMIN_RESET_TO_ZERO", "none")
  /\ Return(r, "void")
  /\ UNCHANGED <<hasBatch, credits, billing_idempotency,
                 processed_events, transcription_jobs, translation_jobs, fanout, txn, faults>>

(***************************************************************************)
(* The responses of the synchronous routes POST /transcribe and POST /dub. *)
(***************************************************************************)
SyncOps == {"transcribe", "dub"}

\* POST /translate and GET /translate/result/:jobId
TranslateOps == {"translate", "result"}

\* c.json(body, status): the request q as it is after the response; body
\* is the provider's result in a 200 and "none" in an error response, whose
\* message field is message
Response(q, status, message, body) ==
  [q EXCEPT !.pc = "done", !.ret = status, !.message = message,
            !.body = body]

Respond(r, status, message, body) ==
  Become(r, Response(r, status, message, body))

\* the catch block of the route handler: 408 when the client's signal is
\* aborted, 500 with the error's message otherwise
RouteCatch(q, message) ==
  IF q.clientAborted
    THEN Response(q, "408", "Request was cancelled", "none")
    ELSE Response(q, "500", message, "none")

\* if (!ok) return 402; otherwise the provider's result is returned
SyncChargeReturn_IgnoresDecline(r, ret) ==
  IF ret = "throw"
    THEN Become(r, RouteCatch(r, STORAGE_ERROR))
    ELSE Become(r, Response([r EXCEPT !.ok = (ret = "true")],
                            "200", "none", r.result))
SyncChargeReturn_TestsSignalAfterCharge(r, ret) ==
  IF ret = "throw"
    THEN Become(r, RouteCatch(r, STORAGE_ERROR))
  ELSE IF r.clientAborted
    THEN Respond(r, "408", "Request was cancelled", "none")
  ELSE IF ret = "true"
    THEN Become(r, Response([r EXCEPT !.ok = TRUE], "200", "none", r.result))
  ELSE Respond(r, "402", "insufficient-credits", "none")
SyncChargeReturn(r, ret) ==
  IF ret = "throw"
    THEN Become(r, RouteCatch(r, STORAGE_ERROR))
  ELSE IF ret = "true"
    THEN Become(r, Response([r EXCEPT !.ok = TRUE], "200", "none", r.result))
  ELSE Respond(r, "402", "insufficient-credits", "none")

\* persistCompletion: if (!ok) it stores the error insufficient-credits and
\* returns the error 402; otherwise it marks the job credited.  An error
\* thrown by the charge reaches the catch block of the caller of
\* persistCompletion, which stores its message as the job's error.
PersistChargeReturn(r, ret) ==
  IF ret = "throw"
    THEN Become(r, [r EXCEPT !.pc = "tj:storeTranslationJobError",
                             !.message = STORAGE_ERROR])
  ELSE IF ret = "true"
    THEN Become(r, [r EXCEPT !.pc = "persist:markTranslationJobCredited",
                             !.ok = TRUE])
  ELSE Become(r, [r EXCEPT !.pc = "tj:storeTranslationJobError",
                           !.message = "insufficient-credits"])

(***************************************************************************)
(* What the caller of a charge does with its outcome.                      *)
(***************************************************************************)
\* the charge hands its outcome to its caller; the completion webhook goes
\* on to store the result when ok, and the billing error when not
ChargeReturn_IgnoresDecline(r, ret) ==
  IF r.op = "transcribeWebhook"
    THEN Become(r, [r EXCEPT !.pc = "webhook:storeResult",
                             !.ok = (ret = "true")])
    ELSE Return(r, ret)
ChargeReturn(r, ret) ==
  IF r.op = "transcribeWebhook"
    THEN IF ret = "throw"
           THEN Return(r, "500")
         ELSE IF ret = "true"
           THEN Become(r, [r EXCEPT !.pc = "webhook:storeResult",
                                    !.ok = TRUE])
         ELSE Become(r, [r EXCEPT !.pc = "webhook:storeError",
                                  !.ok = FALSE,
                                  !.message = "Insufficient credits"])
  ELSE IF r.op \in SyncOps
    THEN SyncChargeReturn(r, ret)
  ELSE IF r.op \in TranslateOps
    THEN PersistChargeReturn(r, ret)
  ELSE Return(r, ret)

(***************************************************************************)
(* updateBalance: the charge without an idempotency key.                   *)
(***************************************************************************)
\* !Number.isFinite(spend) || spend <= 0
NothingToDeduct_Strict(spend) == spend < 0
NothingToDeduct(spend) == spend <= 0

\* WHERE device_id = ? AND credit_balance >= ?
UpdateMatches_NoBalanceCheck(deviceId, spend) == HasRow(deviceId)
UpdateMatches_Strict(deviceId, spend) ==
  HasRow(deviceId) /\ credits[deviceId] > spend
UpdateMatches(deviceId, spend) ==
  HasRow(deviceId) /\ credits[deviceId] >= spend

\* SET credit_balance = credit_balance - ?
DeductCredits(deviceId, spend) == [credits EXCEPT ![deviceId] = @ - spend]

updateBalance(deviceId, spend, reason) ==
  [NoReq EXCEPT !.op = "updateBalance", !.pc = "updateBalance:update",
                !.deviceId = deviceId, !.spend = spend, !.reason = reason]

updateBalance_Update(r) ==
  /\ At(r, "updateBalance:update")
  /\ IF NothingToDeduct(r.spend)
       THEN ChargeReturn(r, "true") /\ UNCHANGED credits
     ELSE IF UpdateMatches(r.deviceId, r.spend)
       THEN /\ credits' = DeductCredits(r.deviceId, r.spend)
            /\ Goto(r, "updateBalance:ledger")
       ELSE ChargeReturn(r, "false") /\ UNCHANGED credits
  /\ UNCHANGED <<hasBatch, credit_ledger, billing_idempotency,
                 processed_events, transcription_jobs, translation_jobs, fanout, txn, faults>>

updateBalance_Ledger(r) ==
  /\ At(r, "updateBalance:ledger")
  /\ credit_ledger' =
       recordLedger(credit_ledger, r.deviceId, -r.spend, r.reason, "none")
  /\ ChargeReturn(r, "true")
  /\ UNCHANGED <<hasBatch, credits, billing_idempotency,
                 processed_events, transcription_jobs, translation_jobs, fanout, txn, faults>>

(***************************************************************************)
(* updateBalanceIdempotent: the charge with an idempotency key, as one D1  *)
(* batch (one transaction): insert the idempotency row, decrement the      *)
(* balance, force a rollback when no row was decremented, write the ledger.*)
(***************************************************************************)
IdempotencyRow(deviceId, reason, key, spend) ==
  [device_id |-> deviceId, reason |-> reason, idempotency_key |-> key,
   spend |-> spend]

\* PRIMARY KEY (device_id, reason, idempotency_key)
PrimaryKeyConflict_None(deviceId, reason, key) == FALSE
PrimaryKeyConflict_KeyOnly(deviceId, reason, key) ==
  \E row \in billing_idempotency : row.idempotency_key = key
PrimaryKeyConflict(deviceId, reason, key) ==
  \E row \in billing_idempotency :
    /\ row.device_id = deviceId
    /\ row.reason = reason
    /\ row.idempotency_key = key

\* INSERT ... SELECT ?, NULL, ... WHERE (SELECT changes()) = 0
ForcesRollback_Never(changes) == FALSE
ForcesRollback(changes) == changes = 0

\* the batch: the error it throws, and the tables it commits
Batch(deviceId, spend, reason, key) ==
  LET changes == IF UpdateMatches(deviceId, spend) THEN 1 ELSE 0
      unchanged == [credits |-> credits, ledger |-> credit_ledger,
                    idem |-> billing_idempotency]
  IN  IF PrimaryKeyConflict(deviceId, reason, key)
        THEN [error |-> UNIQUE_ERROR] @@ unchanged
      ELSE IF ForcesRollback(changes)
        THEN [error |-> NOT_NULL_ERROR] @@ unchanged
      ELSE [error |-> NO_ERROR,
            idem |-> billing_idempotency \cup
                       {IdempotencyRow(deviceId, reason, key, spend)},
            credits |-> IF changes = 1 THEN DeductCredits(deviceId, spend)
                                       ELSE credits,
            ledger |-> recordLedger(credit_ledger, deviceId, -spend,
                                    reason, key)]

\* the two tests look for the constraint's text in the error's message
isBillingIdempotencyUniqueConstraintError_Never(error) == FALSE
isBillingIdempotencyUniqueConstraintError(error) == error = UNIQUE_ERROR

isBillingIdempotencyNotNullRollbackError(error) == error = NOT_NULL_ERROR

\* what updateBalanceIdempotent does with the outcome of db.batch
BatchReturn_ErrorsAreDuplicates(error) ==
  IF error = NO_ERROR THEN "true"
  ELSE IF isBillingIdempotencyNotNullRollbackError(error) THEN "false"
  ELSE "true"
BatchReturn(error) ==
  IF error = NO_ERROR THEN "true"
  ELSE IF isBillingIdempotencyUniqueConstraintError(error) THEN "true"
  ELSE IF isBillingIdempotencyNotNullRollbackError(error) THEN "false"
  ELSE "throw"

\* if (typeof db.batch === "function") { ... } and, below it, the fallback
updateBalanceIdempotent(deviceId, spend, reason, idempotencyKey) ==
  [NoReq EXCEPT !.op = "updateBalanceIdempotent",
                !.pc = IF hasBatch THEN "updateBalanceIdempotent:batch"
                                   ELSE "updateBalanceIdempotent:begin",
                !.deviceId = deviceId, !.spend = spend, !.reason = reason,
                !.idempotencyKey = idempotencyKey]

updateBalanceIdempotent_Batch(r) ==
  /\ At(r, "updateBalanceIdempotent:batch")
  /\ hasBatch
  /\ LET b == Batch(r.deviceId, r.spend, r.reason, r.idempotencyKey)
     IN  IF NothingToDeduct(r.spend)
           THEN ChargeReturn(r, "true") /\ UNCHANGED dbVars
           ELSE /\ credits' = b.credits
                /\ credit_ledger' = b.ledger
                /\ billing_idempotency' = b.idem
                /\ ChargeReturn(r, BatchReturn(b.error))
  /\ UNCHANGED <<hasBatch, processed_events, transcription_jobs, translation_jobs, fanout, txn, faults>>

(***************************************************************************)
(* updateBalanceIdempotent without db.batch: BEGIN, the three statements,  *)
(* COMMIT, each awaited by itself, with ROLLBACK where the balance does    *)
(* not cover the spend and in the catch block.  The requests of a Worker   *)
(* share the one handle db, and a handle of SQLite has one transaction:    *)
(* BEGIN inside a transaction and COMMIT or ROLLBACK outside of one are    *)
(* errors, a statement run while a transaction is open belongs to it, and  *)
(* a statement run while none is open commits by itself.  The tables hold  *)
(* what the handle reads; txn holds what they go back to on ROLLBACK.      *)
(***************************************************************************)
BEGIN_ERROR == "cannot start a transaction within a transaction"
ROLLBACK_ERROR == "cannot rollback - no transaction is active"
COMMIT_ERROR == "cannot commit - no transaction is active"

OpenTxn ==
  [active |-> TRUE, credits |-> credits, ledger |-> credit_ledger,
   idem |-> billing_idempotency]

\* what is committed: the tables, or what they were when the transaction
\* that is open began
Committed ==
  IF txn.active
    THEN [credits |-> txn.credits, ledger |-> txn.ledger, idem |-> txn.idem]
    ELSE [credits |-> credits, ledger |-> credit_ledger,
          idem |-> billing_idempotency]

\* ROLLBACK of the open transaction
Rollback ==
  /\ credits' = txn.credits
  /\ credit_ledger' = txn.ledger
  /\ billing_idempotency' = txn.idem
  /\ txn' = NoTxn

\* the statement threw: on to the catch block with the error
Caught(r, error) ==
  Become(r, [r EXCEPT !.pc = "updateBalanceIdempotent:catch",
                      !.message = error])

FallbackFrame ==
  UNCHANGED <<hasBatch, processed_events, transcription_jobs,
              translation_jobs, fanout, faults>>

\* await db.exec("BEGIN")
updateBalanceIdempotent_Begin(r) ==
  /\ At(r, "updateBalanceIdempotent:begin")
  /\ ~hasBatch
  /\ IF NothingToDeduct(r.spend)
       THEN ChargeReturn(r, "true") /\ UNCHANGED txn
     ELSE IF txn.active
       THEN Caught(r, BEGIN_ERROR) /\ UNCHANGED txn
     ELSE Goto(r, "updateBalanceIdempotent:insert") /\ txn' = OpenTxn
  /\ UNCHANGED dbVars
  /\ FallbackFrame

\* INSERT INTO billing_idempotency ...
updateBalanceIdempotent_Insert(r) ==
  /\ At(r, "updateBalanceIdempotent:insert")
  /\ IF PrimaryKeyConflict(r.deviceId, r.reason, r.idempotencyKey)
       THEN Caught(r, UNIQUE_ERROR) /\ UNCHANGED billing_idempotency
       ELSE /\ billing_idempotency' =
                 billing_idempotency \cup
                   {IdempotencyRow(r.deviceId, r.reason, r.idempotencyKey,
                                   r.spend)}
            /\ Goto(r, "updateBalanceIdempotent:update")
  /\ UNCHANGED <<credits, credit_ledger, txn>>
  /\ FallbackFrame

\* UPDATE credits ... WHERE device_id = ? AND credit_balance >= ?, and
\* if (changes <= 0)
updateBalanceIdempotent_Update(r) ==
  /\ At(r, "updateBalanceIdempotent:update")
  /\ IF UpdateMatches(r.deviceId, r.spend)
       THEN /\ credits' = DeductCredits(r.deviceId, r.spend)
            /\ Goto(r, "updateBalanceIdempotent:ledger")
       ELSE /\ UNCHANGED credits
            /\ Goto(r, "updateBalanceIdempotent:rollback")
  /\ UNCHANGED <<credit_ledger, billing_idempotency, txn>>
  /\ FallbackFrame

\* await db.exec("ROLLBACK"); return false
updateBalanceIdempotent_Rollback(r) ==
  /\ At(r, "updateBalanceIdempotent:rollback")
  /\ IF txn.active
       THEN Rollback /\ ChargeReturn(r, "false")
       ELSE Caught(r, ROLLBACK_ERROR) /\ UNCHANGED <<dbVars, txn>>
  /\ FallbackFrame

\* INSERT INTO credit_ledger ...
updateBalanceIdempotent_Ledger(r) ==
  /\ At(r, "updateBalanceIdempotent:ledger")
  /\ credit_ledger' =
       recordLedger(credit_ledger, r.deviceId, -r.spend, r.reason,
                    r.idempotencyKey)
  /\ Goto(r, "updateBalanceIdempotent:commit")
  /\ UNCHANGED <<credits, billing_idempotency, txn>>
  /\ FallbackFrame

\* await db.exec("COMMIT"); return true
updateBalanceIdempotent_Commit(r) ==
  /\ At(r, "updateBalanceIdempotent:commit")
  /\ IF txn.active
       THEN txn' = NoTxn /\ ChargeReturn(r, "true")
       ELSE Caught(r, COMMIT_ERROR) /\ UNCHANGED txn
  /\ UNCHANGED dbVars
  /\ FallbackFrame

\* what the catch block of the fallback returns for the error it caught
FallbackReturn(error) ==
  IF isBillingIdempotencyUniqueConstraintError(error) THEN "true"
  ELSE "throw"

\* catch (error) { try { await db.exec("ROLLBACK") } catch {} ... }
updateBalanceIdempotent_Catch(r) ==
  /\ At(r, "updateBalanceIdempotent:catch")
  /\ IF txn.active THEN Rollback ELSE UNCHANGED <<dbVars, txn>>
  /\ ChargeReturn(r, FallbackReturn(r.message))
  /\ FallbackFrame

FallbackPcs ==
  {"updateBalanceIdempotent:begin", "updateBalanceIdempotent:insert",
   "updateBalanceIdempotent:update", "updateBalanceIdempotent:rollback",
   "updateBalanceIdempotent:ledger", "updateBalanceIdempotent:commit"}

(***************************************************************************)
(* A storage statement throws (D1 unavailable): nothing of the statement   *)
(* is committed and the error reaches the operation's catch block, which   *)
(* rethrows it; a route answers 500.                                       *)
(***************************************************************************)
StatementPcs ==
  {"creditDevice:upsert", "creditDevice:ledger", "reset:getCredits",
   "reset:upsert", "reset:ledger", "updateBalance:update",
   "updateBalance:ledger", "updateBalanceIdempotent:batch",
   "stripe:isEventProcessed", "stripe:markEventProcessed",
   "uploadUrl:getUserByApiKey", "uploadUrl:createTranscriptionJob",
   "process:getTranscriptionJob", "process:setTranscriptionJobProcessing",
   "webhook:getTranscriptionJob", "webhook:storeError",
   "webhook:storeResult", "sync:getUserByApiKey",
   "updateBalanceIdempotent:catch"} \cup FallbackPcs

\* the request is about to send a statement to the database
IssuesStatement(r) ==
  /\ r.pc \in StatementPcs
  /\ r.pc \in {"updateBalance:update", "updateBalanceIdempotent:batch",
               "updateBalanceIdempotent:begin"}
       => ~NothingToDeduct(r.spend)

\* INSERT INTO processed_events ... ON CONFLICT(event_id) DO NOTHING
markEventProcessed(eventId) == processed_events \cup {eventId}

\* the statements of the handlers of the Stripe webhook
HandlerPcs == {"creditDevice:upsert", "creditDevice:ledger"}

\* the finally block around the handlers of the Stripe webhook:
\* if (processed) { await markEventProcessed(...) }, processed being true
\* once the handler has returned
stripeWebhook_Finally_MarksAlways(eventId, processed) ==
  markEventProcessed(eventId)
stripeWebhook_Finally(eventId, processed) ==
  IF processed THEN markEventProcessed(eventId) ELSE processed_events

StorageFault(r) ==
  /\ IssuesStatement(r)
  /\ faults < MaxFaults
  /\ faults' = faults + 1
  /\ IF r.pc = "updateBalanceIdempotent:batch"
       THEN ChargeReturn(r, BatchReturn(STORAGE_ERROR))
     ELSE IF r.pc \in {"updateBalance:update", "updateBalance:ledger"}
       THEN ChargeReturn(r, "throw")
     ELSE IF r.pc \in FallbackPcs
       THEN Caught(r, STORAGE_ERROR)
     ELSE IF r.pc = "updateBalanceIdempotent:catch"
       THEN ChargeReturn(r, FallbackReturn(r.message))
     ELSE IF r.op \in SyncOps
       THEN Respond(r, "500", STORAGE_ERROR, "none")
     ELSE IF r.op \in {"stripeWebhook", "uploadUrl", "process",
                       "transcribeWebhook"}
       THEN Return(r, "500")
     ELSE Return(r, "throw")
  /\ processed_events' =
       IF r.op = "stripeWebhook" /\ r.pc \in HandlerPcs
         THEN stripeWebhook_Finally(r.eventId, FALSE)
         ELSE processed_events
  /\ UNCHANGED <<hasBatch, dbVars, transcription_jobs, translation_jobs, fanout, txn>>

(***************************************************************************)
(* The ledger: grants, charges and resets against the D1 database.         *)
(***************************************************************************)
InitDb ==
  /\ credits = << >>
  /\ credit_ledger = EmptyBag
  /\ billing_idempotency = {}
  /\ processed_events = {}
  /\ transcription_jobs = << >>
  /\ translation_jobs = << >>
  /\ fanout = NoFanOut
  /\ txn = NoTxn
  /\ reqs = EmptyBag
  /\ faults = 0

\* ensureDatabase binds db to the Worker's D1 instance, which has batch()
Init ==
  /\ hasBatch = TRUE
  /\ InitDb

\* the calls the routes make
LedgerCalls ==
  {creditDevice(d, p, FALSE) : d \in Devices, p \in PACK_IDS}
    \cup {creditDevice(ADMIN_DEVICE_ID, p, TRUE) : p \in PACK_IDS}
    \cup {resetCreditsToZero(ADMIN_DEVICE_ID)}
    \cup {updateBalance(d, a, "DUB") : d \in Devices, a \in Spends}
    \cup {updateBalanceIdempotent(d, a, "TRANSCRIBE", k) :
            d \in Devices, a \in Spends, k \in Keys}

Next ==
  \/ \E r \in Pending(LedgerCalls) : creditDevice_Upsert(r)
  \/ \E r \in Pending(LedgerCalls) : creditDevice_Ledger(r)
  \/ \E r \in Pending(LedgerCalls) : resetCreditsToZero_Get(r)
  \/ \E r \in Pending(LedgerCalls) : resetCreditsToZero_Upsert(r)
  \/ \E r \in Pending(LedgerCalls) : resetCreditsToZero_Ledger(r)
  \/ \E r \in Pending(LedgerCalls) : updateBalance_Update(r)
  \/ \E r \in Pending(LedgerCalls) : updateBalance_Ledger(r)
  \/ \E r \in Pending(LedgerCalls) : updateBalanceIdempotent_Batch(r)
  \/ \E r \in Pending(LedgerCalls) : StorageFault(r)

Spec == Init /\ [][Next]_vars

(***************************************************************************)
(* The retry of a declined keyed charge: grants and keyed charges of one   *)
(* account under one key, with room for a declined attempt on an existing  *)
(* account, a grant and the retry.                                         *)
(***************************************************************************)
RetryCalls ==
  {creditDevice("d1", "HOUR_1", FALSE)}
    \cup {updateBalanceIdempotent("d1", a, "TRANSCRIBE", "k1") :
            a \in {secondsToCredits(1), secondsToCredits(2)}}

NextRetry ==
  \/ \E r \in PendingOf(RetryCalls, MaxRetryReq) : creditDevice_Upsert(r)
  \/ \E r \in PendingOf(RetryCalls, MaxRetryReq) : creditDevice_Ledger(r)
  \/ \E r \in PendingOf(RetryCalls, MaxRetryReq) : updateBalanceIdempotent_Batch(r)
  \/ \E r \in PendingOf(RetryCalls, MaxRetryReq) : StorageFault(r)

SpecRetry == Init /\ [][NextRetry]_vars

(***************************************************************************)
(* The Stripe webhook: check processed_events, run the handler of the      *)
(* event's type, and mark the event processed in the finally block once    *)
(* the handler has returned.                                               *)
(***************************************************************************)
\* the events Stripe delivers; an event's id stands for its content
StripeEvents ==
  {[id |-> "evt_1", type |-> "checkout.session.completed",
    deviceId |-> "d1", packId |-> "HOUR_1"],
   [id |-> "evt_2", type |-> "checkout.session.completed",
    deviceId |-> "d2", packId |-> "HOUR_5"],
   [id |-> "evt_3", type |-> "checkout.session.completed",
    deviceId |-> "d1", packId |-> "HOUR_99"],
   [id |-> "evt_4", type |-> "payment_intent.payment_failed",
    deviceId |-> "none", packId |-> "none"]}

isValidPackId(id) == id \in PACK_IDS

\* SELECT event_id FROM processed_events WHERE event_id = ?
isEventProcessed_Never(eventId) == FALSE
isEventProcessed(eventId) == eventId \in processed_events

\* handleCheckoutCompleted reaches creditDevice
CreditsDevice(r) ==
  /\ r.eventType = "checkout.session.completed"
  /\ r.deviceId # "none" /\ r.packId # "none"
  /\ isValidPackId(r.packId)

stripeWebhook(event) ==
  [NoReq EXCEPT !.op = "stripeWebhook", !.pc = "stripe:isEventProcessed",
                !.eventId = event.id, !.eventType = event.type,
                !.deviceId = event.deviceId, !.packId = event.packId]

stripeWebhook_IsEventProcessed(r) ==
  /\ At(r, "stripe:isEventProcessed")
  /\ IF isEventProcessed(r.eventId)
       THEN Return(r, "Already processed")
     ELSE IF CreditsDevice(r)
       THEN Goto(r, "creditDevice:upsert")
       ELSE Goto(r, "stripe:markEventProcessed")
  /\ UNCHANGED <<hasBatch, dbVars, processed_events, transcription_jobs, translation_jobs, fanout, txn, faults>>

stripeWebhook_MarkEventProcessed(r) ==
  /\ At(r, "stripe:markEventProcessed")
  /\ processed_events' = stripeWebhook_Finally(r.eventId, TRUE)
  /\ Return(r, "received")
  /\ UNCHANGED <<hasBatch, dbVars, transcription_jobs, translation_jobs, fanout, txn, faults>>

StripeCalls == {stripeWebhook(e) : e \in StripeEvents}

NextWebhook ==
  \/ \E r \in Pending(StripeCalls) : stripeWebhook_IsEventProcessed(r)
  \/ \E r \in Pending(StripeCalls) : creditDevice_Upsert(r)
  \/ \E r \in Pending(StripeCalls) : creditDevice_Ledger(r)
  \/ \E r \in Pending(StripeCalls) : stripeWebhook_MarkEventProcessed(r)
  \/ \E r \in Pending(StripeCalls) : StorageFault(r)

SpecWebhook == Init /\ [][NextWebhook]_vars

(***************************************************************************)
(* The transcription job: /upload-url creates it, /process/:jobId hands it *)
(* to the relay, and the relay's /webhook/:jobId callback charges for it   *)
(* and stores its result or its error.                                     *)
(***************************************************************************)
JobIds == {"j1"}

\* the result payloads of the relay: duration and the largest word end are
\* in half seconds, 0 where the payload has none
payloads ==
  [nothing  |-> [duration |-> 0, end |-> 0, hasText |-> FALSE],
   textOnly |-> [duration |-> 0, end |-> 0, hasText |-> TRUE],
   timed    |-> [duration |-> 1, end |-> 0, hasText |-> TRUE],
   words    |-> [duration |-> 0, end |-> 3, hasText |-> TRUE]]

Results == DOMAIN payloads

\* getBillingDurationSeconds, in half seconds; -1 for null
getBillingDurationSeconds(payload) ==
  IF payload.duration > 0 THEN payload.duration
  ELSE IF payload.end > 0 THEN payload.end
  ELSE IF ~payload.hasText THEN 0
  ELSE -1

\* Math.ceil of a number of half seconds, in seconds
Ceil(halves) == (halves + 1) \div 2

HasJob(jobId) == jobId \in DOMAIN transcription_jobs

\* INSERT INTO transcription_jobs (..., status, ...) VALUES (..., 'pending_upload', ...)
createTranscriptionJob(jobId, deviceId) ==
  [j \in DOMAIN transcription_jobs \cup {jobId} |->
     IF j = jobId
       THEN [device_id |-> deviceId, status |-> "pending_upload",
             result |-> "none", duration_seconds |-> 0, error |-> "none"]
       ELSE transcription_jobs[j]]

\* UPDATE transcription_jobs SET status = 'processing' WHERE job_id = ?
setTranscriptionJobProcessing(jobId) ==
  IF HasJob(jobId)
    THEN [transcription_jobs EXCEPT ![jobId].status = "processing"]
    ELSE transcription_jobs

\* UPDATE ... SET status = 'completed', result = ?, duration_seconds = ?,
\*   error = NULL WHERE job_id = ?
storeTranscriptionJobResult(jobId, result, durationSeconds) ==
  IF HasJob(jobId)
    THEN [transcription_jobs EXCEPT ![jobId].status = "completed",
                                    ![jobId].result = result,
                                    ![jobId].duration_seconds = durationSeconds,
                                    ![jobId].error = "none"]
    ELSE transcription_jobs

\* UPDATE ... SET status = 'failed', error = ? WHERE job_id = ?
storeTranscriptionJobError(jobId, message) ==
  IF HasJob(jobId)
    THEN [transcription_jobs EXCEPT ![jobId].status = "failed",
                                    ![jobId].error = message]
    ELSE transcription_jobs

\* POST /upload-url: the middleware reads the user's row, and the route
\* wants a positive balance
uploadUrl(deviceId, jobId) ==
  [NoReq EXCEPT !.op = "uploadUrl", !.pc = "uploadUrl:getUserByApiKey",
                !.deviceId = deviceId, !.jobId = jobId]

uploadUrl_GetUser(r) ==
  /\ At(r, "uploadUrl:getUserByApiKey")
  /\ IF ~HasRow(r.deviceId)
       THEN Return(r, "401")
     ELSE IF credits[r.deviceId] <= 0
       THEN Return(r, "402")
     ELSE Become(r, [r EXCEPT !.pc = "uploadUrl:createTranscriptionJob",
                                !.currentBalance = getCredits(r.deviceId)])
  /\ UNCHANGED <<hasBatch, dbVars, processed_events, transcription_jobs, translation_jobs, fanout, txn, faults>>

uploadUrl_Create(r) ==
  /\ At(r, "uploadUrl:createTranscriptionJob")
  /\ transcription_jobs' = createTranscriptionJob(r.jobId, r.deviceId)
  /\ Return(r, "uploadUrl")
  /\ UNCHANGED <<hasBatch, dbVars, processed_events, translation_jobs,
                 fanout, txn, faults>>

\* POST /process/:jobId, for a user the middleware has let through
process(deviceId, jobId) ==
  [NoReq EXCEPT !.op = "process", !.pc = "process:getTranscriptionJob",
                !.deviceId = deviceId, !.jobId = jobId]

\* the job is read and checked; whether the file is in the bucket is up to
\* the client
process_GetJob(r) ==
  /\ At(r, "process:getTranscriptionJob")
  /\ IF ~HasJob(r.jobId)
       THEN Return(r, "404")
     ELSE IF transcription_jobs[r.jobId].device_id # r.deviceId
       THEN Return(r, "403")
     ELSE IF transcription_jobs[r.jobId].status # "pending_upload"
       THEN Return(r, "400")
     ELSE \/ Return(r, "400")
          \/ Goto(r, "process:setTranscriptionJobProcessing")
  /\ UNCHANGED <<hasBatch, dbVars, processed_events, transcription_jobs, translation_jobs, fanout, txn, faults>>

\* the job is marked processing and the relay is called, which may fail
process_SetProcessing(r) ==
  /\ At(r, "process:setTranscriptionJobProcessing")
  /\ transcription_jobs' = setTranscriptionJobProcessing(r.jobId)
  /\ \/ Return(r, "processing")
     \/ Return(r, "500")
  /\ UNCHANGED <<hasBatch, dbVars, processed_events, translation_jobs,
                 fanout, txn, faults>>

\* POST /webhook/:jobId with body {success, result}
transcribeWebhook(jobId, success, result) ==
  [NoReq EXCEPT !.op = "transcribeWebhook",
                !.pc = "webhook:getTranscriptionJob",
                !.jobId = jobId, !.success = success, !.result = result]

\* the job is read; a failure or a payload without a billable duration goes
\* to storeTranscriptionJobError, anything else to the charge keyed by jobId
transcribeWebhook_GetJob(r) ==
  /\ At(r, "webhook:getTranscriptionJob")
  /\ LET billingDur == getBillingDurationSeconds(payloads[r.result])
     IN  IF ~HasJob(r.jobId)
           THEN Return(r, "404")
         ELSE IF ~r.success
           THEN Become(r, [r EXCEPT !.pc = "webhook:storeError",
                                    !.message = "Transcription failed"])
         ELSE IF billingDur = -1
           THEN Become(r, [r EXCEPT !.pc = "webhook:storeError",
                                    !.message = "billing-duration-unavailable"])
         ELSE Become(r, [r EXCEPT
                !.pc = "updateBalanceIdempotent:batch",
                !.deviceId = transcription_jobs[r.jobId].device_id,
                !.spend = secondsToCredits(Ceil(billingDur)),
                !.reason = "TRANSCRIBE",
                !.idempotencyKey = r.jobId])
  /\ UNCHANGED <<hasBatch, dbVars, processed_events, transcription_jobs, translation_jobs, fanout, txn, faults>>

\* the response that follows storeTranscriptionJobError
ErrorResponse(message) ==
  IF message = "Transcription failed" THEN "error_recorded"
  ELSE IF message = "billing-duration-unavailable"
    THEN "billing_duration_unavailable"
  ELSE "insufficient_credits"

transcribeWebhook_StoreError(r) ==
  /\ At(r, "webhook:storeError")
  /\ transcription_jobs' = storeTranscriptionJobError(r.jobId, r.message)
  /\ Return(r, ErrorResponse(r.message))
  /\ UNCHANGED <<hasBatch, dbVars, processed_events, translation_jobs,
                 fanout, txn, faults>>

transcribeWebhook_StoreResult(r) ==
  /\ At(r, "webhook:storeResult")
  /\ transcription_jobs' =
       storeTranscriptionJobResult(
         r.jobId, r.result,
         Ceil(getBillingDurationSeconds(payloads[r.result])))
  /\ Return(r, "success")
  /\ UNCHANGED <<hasBatch, dbVars, processed_events, translation_jobs,
                 fanout, txn, faults>>

\* GET /status/:jobId, for a user the middleware has let through
jobStatus(deviceId, jobId) ==
  [NoReq EXCEPT !.op = "status", !.pc = "status:getTranscriptionJob",
                !.deviceId = deviceId, !.jobId = jobId]

\* the answer {jobId, status, result} of a completed job, {jobId, status,
\* error} of a failed one, {jobId, status} otherwise: ret is the status
StatusResponse_OmitsError(q, job) ==
  Response(q, job.status, "none", job.result)
StatusResponse(q, job) ==
  IF job.status = "completed"
    THEN Response(q, job.status, "none", job.result)
  ELSE IF job.status = "failed"
    THEN Response(q, job.status, job.error, "none")
  ELSE Response(q, job.status, "none", "none")

status_GetJob(r) ==
  /\ At(r, "status:getTranscriptionJob")
  /\ IF ~HasJob(r.jobId)
       THEN Return(r, "404")
     ELSE IF transcription_jobs[r.jobId].device_id # r.deviceId
       THEN Return(r, "403")
     ELSE Become(r, StatusResponse(r, transcription_jobs[r.jobId]))
  /\ UNCHANGED <<hasBatch, dbVars, processed_events, transcription_jobs,
                 translation_jobs, fanout, txn, faults>>

\* job ids are fresh uuids: no two /upload-url requests draw the same
FreshJobIds == JobIds \ {r.jobId : r \in Started}

\* the client learns a job's id from the answer of POST /upload-url
KnownJobIds ==
  {r.jobId : r \in {q \in Returned : q.op = "uploadUrl"
                                     /\ q.ret = "uploadUrl"}}

JobCalls ==
  {creditDevice("d1", p, FALSE) : p \in PACK_IDS}
    \cup {uploadUrl("d1", j) : j \in FreshJobIds}
    \cup {process("d1", j) : j \in JobIds}
    \cup {jobStatus("d1", j) : j \in KnownJobIds}
    \cup {transcribeWebhook(j, FALSE, "nothing") : j \in JobIds}
    \cup {transcribeWebhook(j, TRUE, res) : j \in JobIds, res \in Results}

NextJob ==
  \/ \E r \in PendingOf(JobCalls, MaxJobReq) : creditDevice_Upsert(r)
  \/ \E r \in PendingOf(JobCalls, MaxJobReq) : creditDevice_Ledger(r)
  \/ \E r \in PendingOf(JobCalls, MaxJobReq) : uploadUrl_GetUser(r)
  \/ \E r \in PendingOf(JobCalls, MaxJobReq) : uploadUrl_Create(r)
  \/ \E r \in PendingOf(JobCalls, MaxJobReq) : process_GetJob(r)
  \/ \E r \in PendingOf(JobCalls, MaxJobReq) : process_SetProcessing(r)
  \/ \E r \in PendingOf(JobCalls, MaxJobReq) : transcribeWebhook_GetJob(r)
  \/ \E r \in PendingOf(JobCalls, MaxJobReq) : updateBalanceIdempotent_Batch(r)
  \/ \E r \in PendingOf(JobCalls, MaxJobReq) : transcribeWebhook_StoreError(r)
  \/ \E r \in PendingOf(JobCalls, MaxJobReq) : transcribeWebhook_StoreResult(r)
  \/ \E r \in PendingOf(JobCalls, MaxJobReq) : status_GetJob(r)
  \/ \E r \in PendingOf(JobCalls, MaxJobReq) : StorageFault(r)

SpecJob == Init /\ [][NextJob]_vars

\* a step of a request that has arrived: every statement and every call a
\* handler awaits returns or throws, so a handler in flight goes on
JobStep ==
  \E r \in InFlight :
    \/ creditDevice_Upsert(r)
    \/ creditDevice_Ledger(r)
    \/ uploadUrl_GetUser(r)
    \/ uploadUrl_Create(r)
    \/ process_GetJob(r)
    \/ process_SetProcessing(r)
    \/ transcribeWebhook_GetJob(r)
    \/ updateBalanceIdempotent_Batch(r)
    \/ transcribeWebhook_StoreError(r)
    \/ transcribeWebhook_StoreResult(r)
    \/ status_GetJob(r)

\* requests arrive or not as clients and the relay choose; handlers that
\* have started run on
SpecJobLive == SpecJob /\ WF_vars(JobStep)

(***************************************************************************)
(* The synchronous routes.  POST /transcribe tries the ElevenLabs relay,   *)
(* then the OpenAI relay, then OpenAI directly; POST /dub tries the        *)
(* ElevenLabs relay when the request asks for it, then the OpenAI relay,   *)
(* then OpenAI directly.  A request arrives with the middleware's read of   *)
(* the user and the call of its first provider; each provider call and     *)
(* each statement of the charge is one step.  The client's disconnect and  *)
(* the route's timeout of 300000 ms are steps of the environment.          *)
(***************************************************************************)
MaxSyncReq == 1    \* requests to the two routes in one behaviour of SpecSync
MaxGrants == 2     \* grants that precede the requests of SpecSync

Providers == <<"elevenLabs", "relay", "direct">>

\* the errors a provider call throws: status is the HTTP status of the
\* relay's answer, -1 where the error has none
errors ==
  [e503 |-> [name |-> "Error", status |-> 503,
             message |-> "relay server error: 503"],
   e401 |-> [name |-> "Error", status |-> 401,
             message |-> "relay server error: 401"],
   AbortError |-> [name |-> "AbortError", status |-> -1,
                   message |-> "The operation was aborted"]]

ErrorIds == DOMAIN errors

RETRYABLE_RELAY_STATUS == {408, 409, 425, 429, 500, 502, 503, 504, 522, 524}

\* RETRYABLE_MESSAGE_PATTERN.test(message), for the messages of errors
RETRYABLE_MESSAGE_PATTERN(message) == message = "fetch failed"

extractRelayStatus(error) == error.status

isRetryableRelayError(error) ==
  LET status == extractRelayStatus(error)
  IN  IF status # -1 /\ status >= 200 /\ status < 400 THEN FALSE
      ELSE IF status # -1 /\ status \in RETRYABLE_RELAY_STATUS THEN TRUE
      ELSE IF RETRYABLE_MESSAGE_PATTERN(error.message) THEN TRUE
      ELSE status = -1

\* secondsToCredits({seconds, model}) for the two models with a price per
\* second; "whisper-1" is Math.ceil of 7 * seconds computed in doubles,
\* which lies just above 7 * seconds for 1 to 4 seconds
secondsToCreditsOf(seconds, model) ==
  IF model = "elevenlabs-scribe" THEN secondsToCredits(seconds)
  ELSE IF seconds = 0 THEN 0 ELSE 7 * seconds + 1

\* charactersToCredits({characters, model}) for 1 to 4 characters: the
\* ceiling of 1.05, 2.1 and 14.000000000000002 times the characters
charactersToCredits(characters, model) ==
  IF characters = 0 THEN 0
  ELSE IF model = "eleven_multilingual_v2" THEN 14 * characters + 1
  ELSE IF model = "tts-1-hd" THEN (21 * characters) \div 10 + 1
  ELSE (21 * characters) \div 20 + 1

\* totalCharacters of the requests to /dub
totalCharacters == 1

\* what a provider of /dub returns: audio, or a result without any
DubResults == {"audio", "noAudio"}

\* the transcriptions a provider of /transcribe returns
SyncResults == {"textOnly", "timed"}

transcribe(deviceId, idempotencyKey, clientAborted) ==
  [NoReq EXCEPT !.op = "transcribe", !.pc = "sync:getUserByApiKey",
                !.deviceId = deviceId, !.idempotencyKey = idempotencyKey,
                !.model = "whisper-1", !.clientAborted = clientAborted]

dub(deviceId, ttsProvider, model, clientAborted) ==
  [NoReq EXCEPT !.op = "dub", !.pc = "sync:getUserByApiKey",
                !.deviceId = deviceId, !.ttsProvider = ttsProvider,
                !.model = model, !.clientAborted = clientAborted]

\* the provider whose call the request awaits
ProviderPcs ==
  {op \o ":" \o Providers[i] : op \in SyncOps, i \in 1..3}
AtProvider(r, provider) == r.pc = r.op \o ":" \o provider

\* bearerAuth reads the user's row; the handler tests the client's signal,
\* reads the body and finds it valid, tests the signal again, makes the
\* abort controller and calls its first provider
sync_GetUser(r) ==
  /\ At(r, "sync:getUserByApiKey")
  /\ IF ~HasRow(r.deviceId)
       THEN Respond(r, "401", "Invalid API key", "none")
     ELSE IF r.clientAborted
       THEN Respond(r, "408", "Request was cancelled", "none")
     ELSE IF r.op = "dub" /\ r.ttsProvider # "elevenlabs"
       THEN Goto(r, "dub:relay")
     ELSE Goto(r, r.op \o ":elevenLabs")
  /\ UNCHANGED <<hasBatch, dbVars, processed_events, transcription_jobs, translation_jobs, fanout, txn, faults>>

\* the client disconnects: c.req.raw.signal aborts, and the listener
\* aborts the controller once there is one
ClientAbort(r) ==
  /\ r.op \in SyncOps
  /\ ~r.clientAborted
  /\ Become(r, [r EXCEPT !.clientAborted = TRUE,
                         !.aborted = @ \/ r.pc \in ProviderPcs])
  /\ UNCHANGED <<hasBatch, dbVars, processed_events, transcription_jobs, translation_jobs, fanout, txn, faults>>

\* setTimeout(() => abortController.abort(), 300000) fires: the timer is
\* armed while the providers are tried and cleared by the client's abort
Timeout(r) ==
  /\ r.pc \in ProviderPcs
  /\ ~r.aborted
  /\ Become(r, [r EXCEPT !.aborted = TRUE])
  /\ UNCHANGED <<hasBatch, dbVars, processed_events, transcription_jobs, translation_jobs, fanout, txn, faults>>

\* what a provider call may come to: a result, an error of the provider,
\* or an AbortError once the signal it was given has aborted
Outcomes(r) ==
  (IF r.op = "dub" THEN DubResults ELSE SyncResults)
    \cup {"e503", "e401"}
    \cup (IF r.aborted THEN {"AbortError"} ELSE {})

IsError(outcome) == outcome \in ErrorIds

\* the request with the call's outcome on record
Called(r, provider, outcome) ==
  [r EXCEPT !.calls = Append(@, [provider |-> provider, outcome |-> outcome])]

\* the 408 of the handlers that test the controller's signal
Cancelled(q) ==
  IF q.clientAborted
    THEN Response(q, "408", "Request was cancelled by client", "none")
    ELSE Response(q, "408", "Request exceeded timeout limit", "none")

\* the request holding a provider's result and the flags that say which
\* provider made it: usedRelay and usedElevenLabs are set after the await
\* that returned the result
Tagged_BeforeTheCall(q, outcome, usedRelay, usedElevenLabs) ==
  [q EXCEPT !.result = outcome,
            !.usedRelay = q.calls[1].provider # "direct",
            !.usedElevenLabs = q.calls[1].provider = "elevenLabs"]
Tagged(q, outcome, usedRelay, usedElevenLabs) ==
  [q EXCEPT !.result = outcome, !.usedRelay = usedRelay,
            !.usedElevenLabs = usedElevenLabs]

\* const billedModel = usedElevenLabs ? "elevenlabs-scribe" : model
billedModel_AlwaysRequested(usedElevenLabs, model) == model
billedModel(usedElevenLabs, model) ==
  IF usedElevenLabs THEN "elevenlabs-scribe" ELSE model

\* /transcribe once a provider has returned q.result: the client's signal
\* is tested, the billable duration is taken from the result, and the
\* charge is called, keyed when the request has an Idempotency-Key header
transcribe_Bill(q) ==
  LET billingDur == getBillingDurationSeconds(payloads[q.result])
      billed == billedModel(q.usedElevenLabs, q.model)
  IN  IF q.clientAborted
        THEN Response(q, "408", "Request was cancelled", "none")
      ELSE IF billingDur = -1
        THEN Response(q, "502", "billing-duration-unavailable", "none")
      ELSE [q EXCEPT
             !.pc = IF q.idempotencyKey # "none"
                      THEN "updateBalanceIdempotent:batch"
                      ELSE "updateBalance:update",
             !.spend = secondsToCreditsOf(Ceil(billingDur), billed),
             !.reason = "TRANSCRIBE",
             !.billedModel = billed]

\* the catch blocks of the two relay calls of /transcribe: 408 on an
\* AbortError or an aborted signal, the next provider on any other error
transcribe_Caught(q, error, next) ==
  IF errors[error].name = "AbortError" \/ q.aborted
    THEN Cancelled(q)
    ELSE [q EXCEPT !.pc = next]

transcribe_ElevenLabs(r) ==
  /\ r.op = "transcribe" /\ AtProvider(r, "elevenLabs")
  /\ \E outcome \in Outcomes(r) :
       LET q == Called(r, "elevenLabs", outcome)
       IN  IF IsError(outcome)
             THEN Become(r, transcribe_Caught(q, outcome, "transcribe:relay"))
             ELSE Become(r, transcribe_Bill(Tagged(q, outcome, TRUE, TRUE)))
  /\ UNCHANGED <<hasBatch, dbVars, processed_events, transcription_jobs, translation_jobs, fanout, txn, faults>>

transcribe_Relay(r) ==
  /\ r.op = "transcribe" /\ AtProvider(r, "relay")
  /\ \E outcome \in Outcomes(r) :
       LET q == Called(r, "relay", outcome)
       IN  IF IsError(outcome)
             THEN Become(r, transcribe_Caught(
                    [q EXCEPT !.relayError = outcome], outcome,
                    "transcribe:direct"))
             ELSE Become(r, transcribe_Bill(Tagged(q, outcome, TRUE, FALSE)))
  /\ UNCHANGED <<hasBatch, dbVars, processed_events, transcription_jobs, translation_jobs, fanout, txn, faults>>

\* catch (directError) { throw relayError }: the error that reaches the
\* catch block of the route handler
Rethrown_DirectError(relayError, directError) == directError
Rethrown(relayError, directError) == relayError

transcribe_Direct(r) ==
  /\ r.op = "transcribe" /\ AtProvider(r, "direct")
  /\ \E outcome \in Outcomes(r) :
       LET q == Called(r, "direct", outcome)
       IN  IF IsError(outcome)
             THEN Become(r, RouteCatch(
                    q, errors[Rethrown(q.relayError, outcome)].message))
             ELSE Become(r, transcribe_Bill(Tagged(q, outcome, FALSE, FALSE)))
  /\ UNCHANGED <<hasBatch, dbVars, processed_events, transcription_jobs, translation_jobs, fanout, txn, faults>>

\* relayResult.usedElevenLabs ? "eleven_multilingual_v2"
\*   : chosenModel === "tts-1-hd" ? "tts-1-hd" : "tts-1"
ttsModelForPricing(usedElevenLabs, chosenModel) ==
  IF usedElevenLabs THEN "eleven_multilingual_v2"
  ELSE IF chosenModel = "tts-1-hd" THEN "tts-1-hd"
  ELSE "tts-1"

\* /dub once synthesizeDubWithFallback has returned q.result: a result
\* without audio is thrown to the handler's catch block, any other is
\* charged for by its characters
dub_Bill(q) ==
  LET billed == ttsModelForPricing(q.usedElevenLabs, q.model)
  IN  IF q.result = "noAudio"
        THEN RouteCatch(q, "Dub synthesis returned no audio segments")
        ELSE [q EXCEPT !.pc = "updateBalance:update",
                       !.spend = charactersToCredits(totalCharacters, billed),
                       !.reason = "DUB",
                       !.billedModel = billed]

\* catch (synthesisError): 408 when the controller's signal is aborted,
\* the handler's catch block otherwise
dub_SynthesisError(q, error) ==
  IF q.aborted
    THEN Cancelled(q)
    ELSE RouteCatch(q, errors[error].message)

\* synthesizeDubWithFallback, ttsProvider "elevenlabs"
dub_ElevenLabs(r) ==
  /\ r.op = "dub" /\ AtProvider(r, "elevenLabs")
  /\ \E outcome \in Outcomes(r) :
       LET q == Called(r, "elevenLabs", outcome)
       IN  IF ~IsError(outcome)
             THEN Become(r, dub_Bill(Tagged(q, outcome, TRUE, TRUE)))
           ELSE IF r.aborted
             THEN Become(r, dub_SynthesisError(q, outcome))
           ELSE Become(r, [q EXCEPT !.pc = "dub:relay"])
  /\ UNCHANGED <<hasBatch, dbVars, processed_events, transcription_jobs, translation_jobs, fanout, txn, faults>>

\* synthesizeWithOpenAI: the relay, and on a retryable error of the relay
\* the direct calls
dub_Relay(r) ==
  /\ r.op = "dub" /\ AtProvider(r, "relay")
  /\ \E outcome \in Outcomes(r) :
       LET q == Called(r, "relay", outcome)
       IN  IF ~IsError(outcome)
             THEN Become(r, dub_Bill(Tagged(q, outcome, TRUE, FALSE)))
           ELSE IF r.aborted
             THEN Become(r, dub_SynthesisError(q, outcome))
           ELSE IF ~isRetryableRelayError(errors[outcome])
             THEN Become(r, dub_SynthesisError(q, outcome))
           ELSE Become(r, [q EXCEPT !.pc = "dub:direct",
                                    !.relayError = outcome])
  /\ UNCHANGED <<hasBatch, dbVars, processed_events, transcription_jobs, translation_jobs, fanout, txn, faults>>

\* synthesizeSegmentsDirect, taken as one call
dub_Direct(r) ==
  /\ r.op = "dub" /\ AtProvider(r, "direct")
  /\ \E outcome \in Outcomes(r) :
       LET q == Called(r, "direct", outcome)
       IN  IF ~IsError(outcome)
             THEN Become(r, dub_Bill(Tagged(q, outcome, FALSE, FALSE)))
             ELSE Become(r, dub_SynthesisError(q, outcome))
  /\ UNCHANGED <<hasBatch, dbVars, processed_events, transcription_jobs, translation_jobs, fanout, txn, faults>>

SyncCalls ==
  {transcribe("d1", k, a) : k \in {"none", "k1"}, a \in BOOLEAN}
    \cup {dub("d1", t, "tts-1", a) :
            t \in {"openai", "elevenlabs"}, a \in BOOLEAN}
    \cup {dub("d1", "openai", "tts-1-hd", FALSE)}

\* the database and the requests after n grants of the pack HOUR_5 to d1
\* have returned
AfterGrants(n) ==
  LET grant == [creditDevice("d1", "HOUR_5", FALSE) EXCEPT
                  !.pc = "done", !.ret = "void"]
      row == LedgerRow("d1", packs["HOUR_5"],
                       GrantReason("HOUR_5", FALSE), "none")
  IN  /\ credits = IF n = 0 THEN << >>
                   ELSE [d \in {"d1"} |-> n * packs["HOUR_5"]]
      /\ credit_ledger = [x \in (IF n = 0 THEN {} ELSE {row}) |-> n]
      /\ reqs = [x \in (IF n = 0 THEN {} ELSE {grant}) |-> n]
      /\ billing_idempotency = {}
      /\ processed_events = {}
      /\ transcription_jobs = << >>
      /\ translation_jobs = << >>
      /\ fanout = NoFanOut
      /\ txn = NoTxn
  /\ txn = NoTxn
      /\ faults = 0

\* the routes serve an account that has been granted credits up to
\* MaxGrants times, or never
InitSync ==
  /\ hasBatch = TRUE
  /\ \E n \in 0..MaxGrants : AfterGrants(n)

\* the requests that may run a statement now
SyncPending ==
  InFlight
    \cup (IF Copies(reqs, {r \in Started : r.op \in SyncOps}) < MaxSyncReq
            THEN SyncCalls ELSE {})

\* of the storage statements, those of the charge may throw
NextSync ==
  \/ \E r \in SyncPending : sync_GetUser(r)
  \/ \E r \in SyncPending : ClientAbort(r)
  \/ \E r \in SyncPending : Timeout(r)
  \/ \E r \in SyncPending : transcribe_ElevenLabs(r)
  \/ \E r \in SyncPending : transcribe_Relay(r)
  \/ \E r \in SyncPending : transcribe_Direct(r)
  \/ \E r \in SyncPending : dub_ElevenLabs(r)
  \/ \E r \in SyncPending : dub_Relay(r)
  \/ \E r \in SyncPending : dub_Direct(r)
  \/ \E r \in SyncPending : updateBalance_Update(r)
  \/ \E r \in SyncPending : updateBalance_Ledger(r)
  \/ \E r \in SyncPending : updateBalanceIdempotent_Batch(r)
  \/ \E r \in InFlight : r.op \in SyncOps /\ StorageFault(r)

SpecSync == InitSync /\ [][NextSync]_vars

(***************************************************************************)
(* Unkeyed charges racing on one account: the charges of up to MaxRaceReq  *)
(* requests arrive after the account's grants have returned, and their     *)
(* statements interleave.                                                  *)
(***************************************************************************)
MaxRaceReq == 2

\* one and two seconds of transcription, and one character of
\* eleven_multilingual_v2 speech
RaceSpends ==
  {secondsToCredits(1), secondsToCredits(2),
   charactersToCredits(1, "eleven_multilingual_v2")}

RaceCalls == {updateBalance("d1", a, "DUB") : a \in RaceSpends}

RacePending ==
  InFlight
    \cup (IF Copies(reqs, {r \in Started : r.op = "updateBalance"})
               < MaxRaceReq
            THEN RaceCalls ELSE {})

NextRace ==
  \/ \E r \in RacePending : updateBalance_Update(r)
  \/ \E r \in RacePending : updateBalance_Ledger(r)
  \/ \E r \in RacePending : StorageFault(r)

SpecRace == InitSync /\ [][NextRace]_vars

(***************************************************************************)
(* Translation jobs.  POST /translate creates the job and submits it to    *)
(* the relay, which answers with the completion or with the id of a relay  *)
(* job; GET /translate/result/:jobId reads the job and, while it is not    *)
(* terminal, synchronises it with the relay (syncJobWithRelay) before it   *)
(* reads it again.  Every await of a storage statement or of the relay is  *)
(* one step; the relay's answers are inputs.  Requests are taken past the  *)
(* middleware.                                                             *)
(***************************************************************************)
MaxTranslateReq == 3   \* requests to the two routes in one behaviour

TranslationJobIds == {"t1"}

\* the usage of the completions the relay returns
completions ==
  [c20 |-> [prompt_tokens |-> 20, completion_tokens |-> 10],
   c40 |-> [prompt_tokens |-> 40, completion_tokens |-> 20]]

Completions == DOMAIN completions

\* tokensToCredits({prompt, completion, model: "gpt-5.1"}):
\*   Math.ceil((prompt * 1.25e-6 + completion * 10e-6) * MARGIN
\*             / USD_PER_CREDIT * TOKEN_CREDIT_CALIBRATION),
\* the ceiling of 0.0875 * prompt + 0.7 * completion; for the usages above
\* the doubles give 8.75 and 17.5
tokensToCredits(prompt, completion) ==
  LET n == 7 * prompt + 56 * completion
  IN  IF n % 80 = 0 THEN n \div 80 ELSE n \div 80 + 1

HasTranslationJob(jobId) == jobId \in DOMAIN translation_jobs

\* INSERT INTO translation_jobs (..., status, ...) VALUES (..., 'queued', ...)
\*   ON CONFLICT(job_id) DO UPDATE SET status = 'queued', relay_job_id = ...,
\*   error = NULL
createTranslationJob(jobId, deviceId) ==
  [j \in DOMAIN translation_jobs \cup {jobId} |->
     IF j # jobId THEN translation_jobs[j]
     ELSE IF HasTranslationJob(j)
       THEN [translation_jobs[j] EXCEPT
               !.device_id = deviceId, !.status = "queued",
               !.relay_job_id = "none", !.error = "none"]
     ELSE [device_id |-> deviceId, status |-> "queued",
           relay_job_id |-> "none", result |-> "none", error |-> "none",
           credited |-> FALSE]]

\* UPDATE translation_jobs SET ... WHERE job_id = ?
UpdateTranslationJob(jobId, row) ==
  IF HasTranslationJob(jobId)
    THEN [translation_jobs EXCEPT ![jobId] = row]
    ELSE translation_jobs

\* SET status = 'processing', relay_job_id = ?, error = NULL
setTranslationJobProcessing(jobId, relayJobId) ==
  UpdateTranslationJob(jobId,
    [translation_jobs[jobId] EXCEPT !.status = "processing",
                                    !.relay_job_id = relayJobId,
                                    !.error = "none"])

\* SET status = 'queued', relay_job_id = NULL
resetTranslationJobRelay(jobId) ==
  UpdateTranslationJob(jobId,
    [translation_jobs[jobId] EXCEPT !.status = "queued",
                                    !.relay_job_id = "none"])

\* SET status = 'completed', result = ?, error = NULL
storeTranslationJobResult(jobId, result) ==
  UpdateTranslationJob(jobId,
    [translation_jobs[jobId] EXCEPT !.status = "completed",
                                    !.result = result,
                                    !.error = "none"])

\* SET status = 'failed', error = ?
storeTranslationJobError(jobId, message) ==
  UpdateTranslationJob(jobId,
    [translation_jobs[jobId] EXCEPT !.status = "failed",
                                    !.error = message])

\* SET credited = 1
markTranslationJobCredited(jobId) ==
  UpdateTranslationJob(jobId,
    [translation_jobs[jobId] EXCEPT !.credited = TRUE])

\* what leaves the tables of the ledger and of the other routes alone
TranslationFrame ==
  UNCHANGED <<hasBatch, dbVars, processed_events, transcription_jobs,
              fanout, txn, faults>>

\* POST /translate: crypto.randomUUID() is the job's id
translate(deviceId, jobId) ==
  [NoReq EXCEPT !.op = "translate", !.pc = "translate:createTranslationJob",
                !.deviceId = deviceId, !.jobId = jobId, !.model = "gpt-5.1"]

\* GET /translate/result/:jobId
translateResult(deviceId, jobId) ==
  [NoReq EXCEPT !.op = "result", !.pc = "result:getTranslationJob",
                !.deviceId = deviceId, !.jobId = jobId]

translate_Create(r) ==
  /\ At(r, "translate:createTranslationJob")
  /\ translation_jobs' = createTranslationJob(r.jobId, r.deviceId)
  /\ Goto(r, "tj:submitTranslationRelayJob")
  /\ TranslationFrame

\* the handler has what it was after: POST /translate answers, the poll
\* goes on to read the job again
Synced(q, status, message, body) ==
  IF q.op = "translate"
    THEN Response(q, status, message, body)
    ELSE [q EXCEPT !.pc = "result:refresh"]

\* submitTranslationRelayJob: 200 with the completion, 202 with the relay's
\* job id, or an error
SubmitOutcomes == Completions \cup {"accepted", "throw"}

relayJobIdFor(q) == IF q.op = "translate" THEN "rj1" ELSE "rj2"

tj_Submit(r) ==
  /\ At(r, "tj:submitTranslationRelayJob")
  /\ \E outcome \in SubmitOutcomes :
       LET q == [r EXCEPT !.calls = Append(@, [provider |-> "submit",
                                               outcome |-> outcome])]
       IN  IF outcome \in Completions
             THEN Become(r, [q EXCEPT !.pc = "persist:storeTranslationJobResult",
                                      !.result = outcome])
           ELSE IF outcome = "accepted"
             THEN Become(r, [q EXCEPT !.pc = "tj:setTranslationJobProcessing",
                                      !.relay_job_id = relayJobIdFor(q)])
           ELSE Become(r, [q EXCEPT !.pc = "tj:storeTranslationJobError",
                                    !.message = "Translation relay server error: 503"])
  /\ UNCHANGED translation_jobs
  /\ TranslationFrame

tj_SetProcessing(r) ==
  /\ At(r, "tj:setTranslationJobProcessing")
  /\ translation_jobs' = setTranslationJobProcessing(r.jobId, r.relay_job_id)
  /\ Become(r, Synced(r, "202", "none", "none"))
  /\ TranslationFrame

\* the job's error is stored and the handler answers with it: 402 for
\* insufficient-credits, 500 otherwise
tj_StoreError(r) ==
  /\ At(r, "tj:storeTranslationJobError")
  /\ translation_jobs' = storeTranslationJobError(r.jobId, r.message)
  /\ Respond(r, IF r.message = "insufficient-credits" THEN "402" ELSE "500",
             r.message, "none")
  /\ TranslationFrame

\* persistCompletion
persist_StoreResult(r) ==
  /\ At(r, "persist:storeTranslationJobResult")
  /\ translation_jobs' = storeTranslationJobResult(r.jobId, r.result)
  /\ Goto(r, "persist:getTranslationJob")
  /\ TranslationFrame

persist_GetJob(r) ==
  /\ At(r, "persist:getTranslationJob")
  /\ IF ~HasTranslationJob(r.jobId)
       THEN Respond(r, "500", "Job not found", "none")
     ELSE IF translation_jobs[r.jobId].credited
       THEN Become(r, Synced(r, "200", "none", r.result))
     ELSE Become(r, [r EXCEPT
            !.pc = "updateBalance:update",
            !.spend = tokensToCredits(completions[r.result].prompt_tokens,
                                      completions[r.result].completion_tokens),
            !.reason = "TRANSLATE"])
  /\ UNCHANGED translation_jobs
  /\ TranslationFrame

persist_MarkCredited(r) ==
  /\ At(r, "persist:markTranslationJobCredited")
  /\ translation_jobs' = markTranslationJobCredited(r.jobId)
  /\ Become(r, Synced(r, "200", "none", r.result))
  /\ TranslationFrame

\* respondWithJobResult, respondWithJobFailure and the answer 202 with
\* {status}
JobResponse(q, job) ==
  IF job.status = "completed"
    THEN Response(q, "200", "none", job.result)
  ELSE IF job.status = "failed"
    THEN Response(q, IF job.error = "insufficient-credits" THEN "402"
                                                           ELSE "500",
                  job.error, "none")
  ELSE Response(q, "202", "none", "none")

result_GetJob(r) ==
  /\ At(r, "result:getTranslationJob")
  /\ IF ~HasTranslationJob(r.jobId)
       THEN Respond(r, "404", "Job not found", "none")
     ELSE LET job == translation_jobs[r.jobId]
          IN  IF job.device_id # r.deviceId
                THEN Respond(r, "404", "Job not found", "none")
              ELSE IF job.status \in {"completed", "failed"}
                THEN Become(r, JobResponse(r, job))
              ELSE IF job.relay_job_id = "none"
                THEN Goto(r, "tj:submitTranslationRelayJob")
              ELSE Become(r, [r EXCEPT !.pc = "sync:fetchRelayTranslationStatus",
                                       !.relay_job_id = job.relay_job_id])
  /\ UNCHANGED translation_jobs
  /\ TranslationFrame

\* fetchRelayTranslationStatus: 202, 200 with the completion, 404, another
\* status, or an error
StatusOutcomes ==
  Completions \cup {"processing", "not_found", "error", "throw"}

sync_FetchStatus(r) ==
  /\ At(r, "sync:fetchRelayTranslationStatus")
  /\ \E outcome \in StatusOutcomes :
       LET q == [r EXCEPT !.calls = Append(@, [provider |-> "status",
                                               outcome |-> outcome])]
       IN  IF outcome \in Completions
             THEN Become(r, [q EXCEPT !.pc = "persist:storeTranslationJobResult",
                                      !.result = outcome])
           ELSE IF outcome = "processing"
             THEN Become(r, [q EXCEPT !.pc = "tj:setTranslationJobProcessing"])
           ELSE IF outcome = "not_found"
             THEN Become(r, [q EXCEPT !.pc = "sync:resetTranslationJobRelay"])
           ELSE Become(r, [q EXCEPT
                  !.pc = "tj:storeTranslationJobError",
                  !.message = IF outcome = "error"
                                THEN "500 Internal Server Error"
                                ELSE "Relay status check failed"])
  /\ UNCHANGED translation_jobs
  /\ TranslationFrame

sync_Reset(r) ==
  /\ At(r, "sync:resetTranslationJobRelay")
  /\ translation_jobs' = resetTranslationJobRelay(r.jobId)
  /\ Goto(r, "tj:submitTranslationRelayJob")
  /\ TranslationFrame

result_Refresh(r) ==
  /\ At(r, "result:refresh")
  /\ IF ~HasTranslationJob(r.jobId)
       THEN Respond(r, "404", "Job not found", "none")
       ELSE Become(r, JobResponse(r, translation_jobs[r.jobId]))
  /\ UNCHANGED translation_jobs
  /\ TranslationFrame

\* job ids are fresh uuids
FreshTranslationJobIds == TranslationJobIds \ {r.jobId : r \in Started}

\* the client learns a job's id from the answer 202 of POST /translate
KnownTranslationJobIds ==
  {r.jobId : r \in {q \in Returned : q.op = "translate" /\ q.ret = "202"}}

TranslateCalls ==
  {translate("d1", j) : j \in FreshTranslationJobIds}
    \cup {translateResult("d1", j) : j \in KnownTranslationJobIds}

TranslatePending ==
  InFlight
    \cup (IF Copies(reqs, {r \in Started : r.op \in TranslateOps})
               < MaxTranslateReq
            THEN TranslateCalls ELSE {})

NextTranslate ==
  \/ \E r \in TranslatePending : translate_Create(r)
  \/ \E r \in TranslatePending : tj_Submit(r)
  \/ \E r \in TranslatePending : tj_SetProcessing(r)
  \/ \E r \in TranslatePending : tj_StoreError(r)
  \/ \E r \in TranslatePending : persist_StoreResult(r)
  \/ \E r \in TranslatePending : persist_GetJob(r)
  \/ \E r \in TranslatePending : persist_MarkCredited(r)
  \/ \E r \in TranslatePending : result_GetJob(r)
  \/ \E r \in TranslatePending : sync_FetchStatus(r)
  \/ \E r \in TranslatePending : sync_Reset(r)
  \/ \E r \in TranslatePending : result_Refresh(r)
  \/ \E r \in TranslatePending : updateBalance_Update(r)
  \/ \E r \in TranslatePending : updateBalance_Ledger(r)
  \/ \E r \in InFlight : r.op \in TranslateOps /\ StorageFault(r)

SpecTranslate == InitSync /\ [][NextTranslate]_vars

(***************************************************************************)
(* synthesizeSegmentsDirect: the direct per-segment fan-out of POST /dub.  *)
(* maxConcurrency workers take segments from a shared cursor, one call of  *)
(* callSpeechDirect each at a time.  JavaScript runs a worker from one     *)
(* await to the next without interruption, so between steps every worker   *)
(* that has not exited awaits its call: inflight holds the positions of    *)
(* the segments of those calls.  A step is the start of the fan-out, the   *)
(* settling of one call with what its worker does next, the abort of the   *)
(* signal, or the continuation of Promise.all.  Positions count from 1,    *)
(* the cursor from 0 as in the code.                                       *)
(***************************************************************************)
MaxSegments == 5

FALLBACK_SEGMENT_CONCURRENCY == 4

Min(a, b) == IF a <= b THEN a ELSE b
Max(a, b) == IF a >= b THEN a ELSE b

\* Math.max(1, Math.min(FALLBACK_SEGMENT_CONCURRENCY, segments.length))
maxConcurrency_OnePerSegment(segments) == Max(1, Len(segments))
maxConcurrency(segments) ==
  Max(1, Min(FALLBACK_SEGMENT_CONCURRENCY, Len(segments)))

\* the index fields of the segments of a request: idx + 1 where the client
\* sends none, and the client's numbers, in any order, where it does
SegmentLists ==
  {[k \in 1..n |-> k] : n \in 1..MaxSegments}
    \cup {[k \in 1..n |-> n + 1 - k] : n \in 2..MaxSegments}
    \cup {<<2, 2, 1>>}

\* one pass of a worker's loop from its top to its next await or its exit
WorkerLoop_NoIncrement(f) ==
  IF f.aborted THEN f
  ELSE LET currentIndex == f.cursor
       IN  [f EXCEPT !.inflight = IF currentIndex >= Len(f.segments)
                                    THEN @
                                    ELSE @ \cup {currentIndex + 1}]
WorkerLoop(f) ==
  IF f.aborted THEN f
  ELSE LET currentIndex == f.cursor
       IN  [f EXCEPT !.cursor = @ + 1,
                     !.inflight = IF currentIndex >= Len(f.segments)
                                    THEN @
                                    ELSE @ \cup {currentIndex + 1}]

\* Array.from({length}, async () => ...) runs each worker up to its first
\* await
RECURSIVE Spawn(_, _)
Spawn(f, length) ==
  IF length = 0 THEN f ELSE Spawn(WorkerLoop(f), length - 1)

\* results.sort((a, b) => a.index - b.index), a stable sort: the positions
\* in results by ascending index of their segment
SortByIndex(results, segments) ==
  LET n == Len(results)
      Before(i, j) == \/ segments[results[i]] < segments[results[j]]
                      \/ /\ segments[results[i]] = segments[results[j]]
                         /\ i < j
      Rank(j) == Cardinality({i \in 1..n : Before(i, j)}) + 1
  IN  [k \in 1..n |-> results[CHOOSE j \in 1..n : Rank(j) = k]]

FanOutFrame ==
  UNCHANGED <<hasBatch, dbVars, processed_events, transcription_jobs,
              translation_jobs, txn, reqs, faults>>

\* synthesizeSegmentsDirect({segments, signal}), the signal aborted or not
fanout_Start ==
  /\ fanout.pc = "idle"
  /\ \E segments \in SegmentLists, aborted \in BOOLEAN :
       LET f == [pc |-> "running", segments |-> segments, cursor |-> 0,
                 inflight |-> {}, results |-> << >>, errors |-> << >>,
                 aborted |-> aborted, returned |-> << >>,
                 thrown |-> "none"]
       IN  fanout' =
             IF aborted
               THEN [f EXCEPT !.pc = "thrown", !.thrown = "AbortError"]
               ELSE Spawn(f, maxConcurrency(segments))
  /\ FanOutFrame

\* signal.aborted becomes true: the route's timeout or the client
fanout_Abort ==
  /\ fanout.pc = "running"
  /\ ~fanout.aborted
  /\ fanout' = [fanout EXCEPT !.aborted = TRUE]
  /\ FanOutFrame

\* what a call of callSpeechDirect may end with: the audio, an error of the
\* provider, or, once the signal is aborted, an AbortError; a call whose
\* response had arrived when the signal aborted still returns its audio
CallOutcomes(f) ==
  {"audio", "e503", "e401"} \cup (IF f.aborted THEN {"AbortError"} ELSE {})

\* try { results.push(...) } catch (err) { errors.push(err); return; }
Settled(f, p, outcome) ==
  LET g == [f EXCEPT !.inflight = @ \ {p}]
  IN  IF outcome = "audio"
        THEN WorkerLoop([g EXCEPT !.results = Append(@, p)])
        ELSE [g EXCEPT !.errors = Append(@, outcome)]

\* the call for the segment at position p settles and its worker goes on
fanout_Settle ==
  /\ fanout.pc = "running"
  /\ \E p \in fanout.inflight, outcome \in CallOutcomes(fanout) :
       fanout' = Settled(fanout, p, outcome)
  /\ FanOutFrame

\* if (errors.length) throw errors[0]
Surfaced_LastError(errs) == errs[Len(errs)]
Surfaced(errs) == errs[1]

\* await Promise.all(workers) resumes once every worker has exited
fanout_Finish ==
  /\ fanout.pc = "running"
  /\ fanout.inflight = {}
  /\ fanout' =
       IF Len(fanout.errors) > 0
         THEN [fanout EXCEPT !.pc = "thrown",
                             !.thrown = Surfaced(fanout.errors)]
         ELSE [fanout EXCEPT !.pc = "returned",
                             !.returned = SortByIndex(fanout.results,
                                                      fanout.segments)]
  /\ FanOutFrame

NextFanOut ==
  \/ fanout_Start
  \/ fanout_Abort
  \/ fanout_Settle
  \/ fanout_Finish

SpecFanOut == Init /\ [][NextFanOut]_vars

\* every call of the provider returns or throws, and the continuation of
\* Promise.all runs once the workers have exited
SpecFanOutLive ==
  /\ SpecFanOut
  /\ WF_vars(fanout_Settle)
  /\ WF_vars(fanout_Finish)

(***************************************************************************)
(* Keyed charges on either path: db.batch where the handle has it, the     *)
(* explicit transaction where it has not.  Both accounts have been granted *)
(* the pack HOUR_5; charges of 6 and 11 credits arrive under one or two    *)
(* keys, for either account and under either reason.  (The callers at hand *)
(* pass the reason "TRANSCRIBE" only; the reason is a parameter of         *)
(* updateBalanceIdempotent and a column of the primary key.)               *)
(***************************************************************************)
MaxKeyedReq == 4   \* requests of one behaviour of SpecKeyed, two grants included

KeyedCalls ==
  {updateBalanceIdempotent(d, a, reason, k) :
     d \in Devices, a \in {secondsToCredits(1), secondsToCredits(2)},
     reason \in {"TRANSCRIBE", "DUB"}, k \in Keys}

InitKeyed ==
  LET grants == {[creditDevice(d, "HOUR_5", FALSE) EXCEPT
                    !.pc = "done", !.ret = "void"] : d \in Devices}
      rows == {LedgerRow(d, packs["HOUR_5"], GrantReason("HOUR_5", FALSE),
                         "none") : d \in Devices}
  IN  /\ hasBatch \in BOOLEAN
      /\ credits = [d \in Devices |-> packs["HOUR_5"]]
      /\ credit_ledger = SetToBag(rows)
      /\ reqs = SetToBag(grants)
      /\ billing_idempotency = {}
      /\ processed_events = {}
      /\ transcription_jobs = << >>
      /\ translation_jobs = << >>
      /\ fanout = NoFanOut
      /\ txn = NoTxn
      /\ faults = 0

KeyedPending == PendingOf(KeyedCalls, MaxKeyedReq)

NextKeyed ==
  \/ \E r \in KeyedPending : updateBalanceIdempotent_Batch(r)
  \/ \E r \in KeyedPending : updateBalanceIdempotent_Begin(r)
  \/ \E r \in KeyedPending : updateBalanceIdempotent_Insert(r)
  \/ \E r \in KeyedPending : updateBalanceIdempotent_Update(r)
  \/ \E r \in KeyedPending : updateBalanceIdempotent_Rollback(r)
  \/ \E r \in KeyedPending : updateBalanceIdempotent_Ledger(r)
  \/ \E r \in KeyedPending : updateBalanceIdempotent_Commit(r)
  \/ \E r \in KeyedPending : updateBalanceIdempotent_Catch(r)
  \/ \E r \in KeyedPending : StorageFault(r)

SpecKeyed == InitKeyed /\ [][NextKeyed]_vars

(***************************************************************************)
(* Vocabulary of the properties.                                           *)
(***************************************************************************)
Quiescent == InFlight = {}
NoFaultReported == \A r \in Returned : r.ret \notin {"throw", "500"}

IsKeyed(r) == r.op = "updateBalanceIdempotent"

\* the rows of the two tables that belong to one (account, reason, key)
RecordsOf(r) ==
  {row \in billing_idempotency :
     /\ row.device_id = r.deviceId
     /\ row.reason = r.reason
     /\ row.idempotency_key = r.idempotencyKey}

LedgerEntriesOf(r) ==
  Copies(credit_ledger,
         {row \in BagToSet(credit_ledger) :
            /\ row.device_id = r.deviceId
            /\ row.reason = r.reason
            /\ row.key = r.idempotencyKey})

\* the requests that arrive in this step with no fault hitting their first
\* statement (none or one), as they are after that statement
Arrived ==
  IF faults' = faults /\ BagCardinality(reqs') > BagCardinality(reqs)
    THEN BagToSet(reqs' (-) reqs)
    ELSE {}

\* the requests that return in this step, no fault hitting their statement
Finished ==
  IF faults' = faults
    THEN {r \in BagToSet(reqs' (-) reqs) : r.pc = "done"}
    ELSE {}

IsCharge(r) == r.op \in {"updateBalance", "updateBalanceIdempotent"}
Returns(r, ret) == r.pc = "done" /\ r.ret = ret

IsGrant(r) == r.op = "creditDevice" /\ r.pc = "done" /\ r.ret = "void"

RECURSIVE GrantSum(_)
GrantSum(grants) ==
  IF grants = {} THEN 0
  ELSE LET g == CHOOSE x \in grants : TRUE
       IN  packs[g.packId] * CopiesIn(g, reqs) + GrantSum(grants \ {g})

\* the credits granted to one device by the grants that have returned
Granted(deviceId) ==
  GrantSum({g \in Returned : IsGrant(g) /\ g.deviceId = deviceId})

\* the request that takes this step, as it is before the step; empty in
\* the step in which the request arrives
StepFrom == BagToSet(reqs (-) reqs')

IsSync(r) == r.op \in SyncOps

\* the credits asked for by the requests rows, each counted as often as it
\* was started
RECURSIVE SumSpend(_)
SumSpend(rows) ==
  IF rows = {} THEN 0
  ELSE LET x == CHOOSE y \in rows : TRUE
       IN  x.spend * CopiesIn(x, reqs) + SumSpend(rows \ {x})

\* the two charges called on their own
ChargeOps == {"updateBalance", "updateBalanceIdempotent"}

\* the request awaits a statement of its charge
AtCharge(r) ==
  r.pc \in {"updateBalance:update", "updateBalance:ledger",
            "updateBalanceIdempotent:batch"}

\* the providers the request has called, in the order of the calls
Invoked(r) == [i \in DOMAIN r.calls |-> r.calls[i].provider]

\* the call of the provider failed with an error other than an AbortError
Failed(call) == IsError(call.outcome) /\ call.outcome # "AbortError"

(***************************************************************************)
(* C1: two keyed charges with the same (account, reason, key) and the same *)
(* positive amount, both returned as successful, next to grants only:      *)
(* the balance is the granted credits less the amount once, and the        *)
(* charge has one ledger entry and one idempotency record.                 *)
(***************************************************************************)
C1_SameKeyChargedOnce ==
  \A r \in Returned :
    ( /\ IsKeyed(r) /\ r.ret = "true" /\ r.spend > 0
      /\ CopiesIn(r, reqs) >= 2
      /\ \A g \in Started \ {r} : IsGrant(g) )
    => /\ HasRow(r.deviceId)
       /\ credits[r.deviceId] = Granted(r.deviceId) - r.spend
       /\ LedgerEntriesOf(r) = 1
       /\ Cardinality(RecordsOf(r)) = 1

C1_Witness ==
  \E r \in Returned :
    /\ IsKeyed(r) /\ r.ret = "true" /\ r.spend > 0
    /\ CopiesIn(r, reqs) >= 2
    /\ \A g \in Started \ {r} : IsGrant(g)
    /\ HasRow(r.deviceId)
    /\ Granted(r.deviceId) >= r.spend

(***************************************************************************)
(* C2: no account's balance is ever below zero, whatever grants, keyed and *)
(* unkeyed charges and admin resets interleave.                            *)
(***************************************************************************)
C2_BalanceNeverNegative == \A d \in DOMAIN credits : credits[d] >= 0

C2_Witness ==
  \E c \in Returned, k \in Returned :
    /\ c.op = "updateBalance" /\ c.ret = "false"
    /\ IsKeyed(k) /\ k.ret = "true" /\ k.spend > 0
    /\ c.deviceId = k.deviceId
    /\ HasRow(c.deviceId)
    /\ credits[c.deviceId] < c.spend

(***************************************************************************)
(* C3: once every grant and charge has returned and none reported a        *)
(* storage fault (no admin reset taking part), every account's balance is  *)
(* the sum of the deltas of its ledger entries.                            *)
(***************************************************************************)
C3_BalanceIsLedgerSum ==
  ( /\ Quiescent
    /\ NoFaultReported
    /\ \A r \in Started : r.op # "resetCreditsToZero" )
  => \A d \in Devices :
       (IF HasRow(d) THEN credits[d] ELSE 0) = LedgerSum(d)

C3_Witness ==
  /\ Quiescent
  /\ NoFaultReported
  /\ \E g \in Returned, c \in Returned, k \in Returned :
       /\ IsGrant(g)
       /\ c.op = "updateBalance" /\ c.ret = "true" /\ c.spend > 0
       /\ IsKeyed(k) /\ k.ret = "true" /\ k.spend > 0
       /\ g.deviceId = c.deviceId /\ g.deviceId = k.deviceId

\* the balance does not cover the charge, or the account has no row
Uncovered(r) == ~HasRow(r.deviceId) \/ credits[r.deviceId] < r.spend

(***************************************************************************)
(* C4 as stated: every charge, keyed or unkeyed, for more than the balance *)
(* or for an account without a row returns failure and leaves balances,    *)
(* ledger and idempotency records as they were.                            *)
(***************************************************************************)
C4_AsStated ==
  [][\A r \in Arrived :
       (IsCharge(r) /\ Uncovered(r))
       => (Returns(r, "false") /\ UNCHANGED dbVars)]_vars

(***************************************************************************)
(* C4 amended: a charge of a positive amount, unkeyed or keyed with no     *)
(* idempotency record committed for its (account, reason, key), for more   *)
(* than the balance or for an account without a row returns failure and    *)
(* leaves balances, ledger and idempotency records as they were: no        *)
(* account row and no idempotency record is created.                       *)
(***************************************************************************)
C4_DeclinedChargeWritesNothing ==
  [][\A r \in Arrived :
       ( /\ IsCharge(r) /\ r.spend > 0
         /\ Uncovered(r)
         /\ IsKeyed(r) => RecordsOf(r) = {} )
       => (Returns(r, "false") /\ UNCHANGED dbVars)]_vars

C4_Witness ==
  \E k \in Returned, c \in Returned :
    /\ IsKeyed(k) /\ k.ret = "false" /\ k.spend > 0
    /\ c.op = "updateBalance" /\ c.ret = "false" /\ c.spend > 0
    /\ HasRow(k.deviceId) /\ credits[k.deviceId] < k.spend
    /\ ~HasRow(c.deviceId)
    /\ RecordsOf(k) = {}

(***************************************************************************)
(* C5: a keyed charge of a positive amount that finds no idempotency       *)
(* record for its (account, reason, key) and a balance of at least the     *)
(* amount returns success, decrements the balance by the amount and        *)
(* records the charge once; so it does after an earlier attempt with the   *)
(* same key was declined and a grant has raised the balance.               *)
(***************************************************************************)
C5_RetryAfterGrantSucceeds ==
  [][\A r \in Arrived :
       ( /\ IsKeyed(r) /\ r.spend > 0
         /\ RecordsOf(r) = {}
         /\ ~Uncovered(r) )
       => /\ Returns(r, "true")
          /\ credits' = [credits EXCEPT ![r.deviceId] = @ - r.spend]
          /\ Cardinality(RecordsOf(r)') = 1
          /\ LedgerEntriesOf(r)' = LedgerEntriesOf(r) + 1]_vars

C5_Witness ==
  \E f \in Returned, g \in Returned :
    /\ IsGrant(g) /\ g.deviceId = f.deviceId
    /\ IsKeyed(f) /\ f.ret = "false" /\ f.spend > packs[g.packId]
    /\ CopiesIn(g, reqs) = 2
    /\ [f EXCEPT !.ret = "true"] \in Returned
    /\ Cardinality(RecordsOf(f)) = 1
    /\ LedgerEntriesOf(f) = 1
    /\ credits[f.deviceId] = Granted(f.deviceId) - f.spend

(***************************************************************************)
(* C6: a keyed charge whose (account, reason, key) has a committed         *)
(* idempotency record returns success and changes neither balance nor      *)
(* ledger nor the record, also when the balance is below the amount or the *)
(* amount is not the recorded one.                                         *)
(***************************************************************************)
C6_DuplicateKeyIsSuccess ==
  [][\A r \in Arrived :
       (IsKeyed(r) /\ RecordsOf(r) # {})
       => (Returns(r, "true") /\ UNCHANGED dbVars)]_vars

C6_Witness ==
  \E r \in Returned :
    /\ IsKeyed(r) /\ r.ret = "true" /\ r.spend > 0
    /\ credits[r.deviceId] < r.spend
    /\ \E row \in RecordsOf(r) : row.spend # r.spend

(***************************************************************************)
(* C7: a charge of an amount of zero or less, keyed or not, returns        *)
(* success and leaves balances, ledger and idempotency records unchanged.  *)
(***************************************************************************)
C7_NothingToCharge ==
  [][\A r \in Arrived :
       (IsCharge(r) /\ r.spend <= 0)
       => (Returns(r, "true") /\ UNCHANGED dbVars)]_vars

C7_Witness ==
  \E k \in Returned, c \in Returned :
    /\ IsKeyed(k) /\ k.ret = "true" /\ k.spend = 0
    /\ c.op = "updateBalance" /\ c.ret = "true" /\ c.spend < 0
    /\ ~HasRow(k.deviceId)
    /\ HasRow(c.deviceId)

(***************************************************************************)
(* C8: a delivery of an event whose id is in processed_events when the     *)
(* webhook checks it returns the success response "Already processed" and  *)
(* runs no handler: balances, ledger and processed_events are unchanged;   *)
(* so the second of two deliveries in sequence grants nothing.             *)
(***************************************************************************)
C8_ProcessedEventIsSkipped ==
  [][\A r \in Arrived :
       (r.op = "stripeWebhook" /\ r.eventId \in processed_events)
       => /\ Returns(r, "Already processed")
          /\ UNCHANGED <<dbVars, processed_events>>]_vars

C8_Witness ==
  \E r \in Returned :
    /\ r.op = "stripeWebhook" /\ r.ret = "received" /\ CreditsDevice(r)
    /\ [r EXCEPT !.ret = "Already processed"] \in Returned
    /\ r.eventId \in processed_events
    /\ credits[r.deviceId] = packs[r.packId]
    /\ LedgerSum(r.deviceId) = packs[r.packId]

RECURSIVE EventCredits(_)
EventCredits(events) ==
  IF events = {} THEN 0
  ELSE LET e == CHOOSE x \in events : TRUE
       IN  packs[e.packId] + EventCredits(events \ {e})

\* the credits of the events that grant to one device, each counted once
GrantedByEvents(deviceId) ==
  EventCredits({e \in StripeEvents :
                  CreditsDevice(stripeWebhook(e)) /\ e.deviceId = deviceId})

(***************************************************************************)
(* C9 as stated: for every event id at most one credit grant is applied,   *)
(* whatever deliveries of the event interleave or follow a failed mark: no *)
(* account's balance exceeds the credits of the distinct events that grant *)
(* to it.                                                                  *)
(***************************************************************************)
C9_OneGrantPerEvent ==
  \A d \in DOMAIN credits : credits[d] <= GrantedByEvents(d)

\* a completion callback for the job has had its charge return true
JobCharged(jobId) ==
  \E r \in Started :
    r.op = "transcribeWebhook" /\ r.jobId = jobId /\ r.ok

\* the callback's charge returned false
Declined(r) ==
  r.op = "transcribeWebhook" /\ r.message = "Insufficient credits"

(***************************************************************************)
(* C10: a job is completed only if a completion callback for it had its    *)
(* charge keyed by the jobId return success; and a callback whose charge   *)
(* was declined ends, when its write of the error is not hit by a storage  *)
(* fault, with the job failed under the error "Insufficient credits".      *)
(***************************************************************************)
C10_CompletedOnlyIfCharged ==
  /\ [](\A j \in DOMAIN transcription_jobs :
          transcription_jobs[j].status = "completed" => JobCharged(j))
  /\ [][\A r \in Finished :
          Declined(r)
          => /\ r.ret = "insufficient_credits"
             /\ transcription_jobs'[r.jobId].status = "failed"
             /\ transcription_jobs'[r.jobId].error = "Insufficient credits"]_vars

C10_Witness ==
  \E r \in Returned :
    /\ Declined(r) /\ r.ret = "insufficient_credits"
    /\ transcription_jobs[r.jobId].status = "failed"
    /\ transcription_jobs[r.jobId].error = "Insufficient credits"
    /\ HasRow(r.deviceId) /\ credits[r.deviceId] < r.spend
    /\ credits[r.deviceId] = Granted(r.deviceId)
    /\ ~JobCharged(r.jobId)

\* the charge of the request, about to run, will be declined
WillBeDeclined(q) ==
  /\ q.pc \in {"updateBalance:update", "updateBalanceIdempotent:batch"}
  /\ q.spend > 0
  /\ Uncovered(q)
  /\ q.pc = "updateBalanceIdempotent:batch" => RecordsOf(q) = {}

(***************************************************************************)
(* C11: a request to /transcribe or /dub answers with the provider's       *)
(* result only if its charge returned success; a request whose provider    *)
(* returned a non-empty transcription without a billable duration answers  *)
(* with an error and no result, and a request whose charge is declined     *)
(* answers 402 with no result and leaves the tables unchanged.             *)
(***************************************************************************)
C11_ResultOnlyIfCharged ==
  /\ [](\A r \in Returned :
          IsSync(r)
          => /\ r.body # "none" => (r.ok /\ r.ret = "200" /\ r.body = r.result)
             /\ r.ret = "200" => r.ok
             /\ ( /\ r.op = "transcribe" /\ r.result # "none"
                  /\ getBillingDurationSeconds(payloads[r.result]) = -1 )
                => (r.body = "none" /\ r.ret \in {"502", "408"}))
  /\ [][\A q \in StepFrom, r \in Finished :
          (IsSync(q) /\ WillBeDeclined(q))
          => (r.ret = "402" /\ r.body = "none" /\ ~r.ok
              /\ UNCHANGED dbVars)]_vars

C11_Witness ==
  \E r \in Returned :
    /\ r.op = "dub" /\ r.ret = "402" /\ r.body = "none"
    /\ r.result = "audio" /\ r.usedElevenLabs
    /\ credits[r.deviceId] < r.spend
    /\ credits[r.deviceId] = Granted(r.deviceId)

\* the request's first provider failed with a retryable error and its
\* second returned a result
SecondProviderSucceeded(r) ==
  /\ IsSync(r) /\ Len(r.calls) >= 2
  /\ Failed(r.calls[1])
  /\ isRetryableRelayError(errors[r.calls[1].outcome])
  /\ ~IsError(r.calls[2].outcome)

(***************************************************************************)
(* C14: when the first provider of a request's chain fails with a          *)
(* retryable error and the second returns a result, no third provider is   *)
(* called, the request holds the second provider's result with the flags   *)
(* usedRelay and usedElevenLabs of the second provider, and a response     *)
(* that carries a result carries that one.                                 *)
(***************************************************************************)
C14_SecondProviderAnswers ==
  \A r \in Started :
    SecondProviderSucceeded(r)
    => /\ Len(r.calls) = 2
       /\ r.result = r.calls[2].outcome
       /\ r.usedRelay = (r.calls[2].provider = "relay")
       /\ r.usedElevenLabs = (r.calls[2].provider = "elevenLabs")
       /\ r.body # "none" => r.body = r.calls[2].outcome

C14_Witness ==
  \E r \in Returned :
    /\ SecondProviderSucceeded(r)
    /\ r.op = "transcribe" /\ r.ret = "200"
    /\ Invoked(r) = <<"elevenLabs", "relay">>
    /\ r.body = "timed" /\ r.usedRelay /\ ~r.usedElevenLabs

(***************************************************************************)
(* C15 as stated: a request whose first provider failed with a fatal error *)
(* (not retryable, not an AbortError) has called no other provider and has *)
(* ended, with a failure or, the signal having aborted, a cancellation.    *)
(***************************************************************************)
C15_FatalErrorEndsRequest ==
  \A r \in Started :
    ( /\ IsSync(r) /\ Len(r.calls) >= 1
      /\ Failed(r.calls[1])
      /\ ~isRetryableRelayError(errors[r.calls[1].outcome]) )
    => /\ Len(r.calls) = 1
       /\ r.pc = "done"
       /\ r.ret \in {"500", "408"}

(***************************************************************************)
(* C16 as stated: when a provider call, the last of the chain included,    *)
(* fails after the abort signal has fired, the request ends in that step   *)
(* with the cancellation response 408.                                     *)
(***************************************************************************)
C16_AbortEndsWith408 ==
  [][\A q \in StepFrom, r \in BagToSet(reqs' (-) reqs) :
       ( /\ q.pc \in ProviderPcs /\ q.aborted
         /\ Len(r.calls) = Len(q.calls) + 1
         /\ IsError(r.calls[Len(r.calls)].outcome) )
       => (r.pc = "done" /\ r.ret = "408")]_vars

\* every provider of the request's chain has failed, the last of them the
\* direct call, and the signal has not aborted
Exhausted(r) ==
  /\ IsSync(r) /\ r.pc = "done"
  /\ Len(r.calls) >= 2
  /\ \A i \in DOMAIN r.calls : Failed(r.calls[i])
  /\ r.calls[Len(r.calls)].provider = "direct"
  /\ ~r.aborted /\ ~r.clientAborted

\* the message of the error of the request's i-th call
CauseOf(r, i) == errors[r.calls[i].outcome].message

(***************************************************************************)
(* C17 as stated: a request all of whose providers failed without          *)
(* cancellation answers 500 with the message of the error of the provider  *)
(* called last.                                                            *)
(***************************************************************************)
C17_AsStated ==
  \A r \in Returned :
    Exhausted(r)
    => (r.ret = "500" /\ r.message = CauseOf(r, Len(r.calls)))

(***************************************************************************)
(* C17 amended: a request all of whose providers failed without            *)
(* cancellation answers 500, /dub with the message of the error of the     *)
(* provider called last (the direct calls), /transcribe with the message   *)
(* of the error of the OpenAI relay, the provider called before the last.  *)
(***************************************************************************)
C17_ExhaustedChainFails ==
  \A r \in Returned :
    Exhausted(r)
    => /\ r.ret = "500"
       /\ r.body = "none"
       /\ r.message = IF r.op = "transcribe"
                        THEN CauseOf(r, Len(r.calls) - 1)
                        ELSE CauseOf(r, Len(r.calls))

C17_Witness ==
  \E r \in Returned :
    /\ Exhausted(r) /\ r.op = "transcribe"
    /\ Invoked(r) = <<"elevenLabs", "relay", "direct">>
    /\ r.calls[2].outcome = "e503" /\ r.calls[3].outcome = "e401"
    /\ r.ret = "500" /\ r.message = errors["e503"].message

\* the provider that made the request's result: the one called last
Producer(r) == r.calls[Len(r.calls)].provider

\* the model whose price the result of that provider has
ModelOf(r) ==
  IF Producer(r) = "elevenLabs"
    THEN IF r.op = "transcribe" THEN "elevenlabs-scribe"
                                ELSE "eleven_multilingual_v2"
    ELSE r.model

\* the price of the request's result under a model
PriceOf(r, model) ==
  IF r.op = "transcribe"
    THEN secondsToCreditsOf(
           Ceil(getBillingDurationSeconds(payloads[r.result])), model)
    ELSE charactersToCredits(totalCharacters, model)

\* the requests answered with a result and charged under no key for the
\* same account and reason as r
UnkeyedSuccesses(r) ==
  {x \in Returned :
     /\ IsSync(x) /\ x.ret = "200" /\ x.spend > 0
     /\ x.idempotencyKey = "none"
     /\ x.deviceId = r.deviceId /\ x.reason = r.reason}

(***************************************************************************)
(* C18: a request to /transcribe or /dub answered with a result has called *)
(* its charge once, for the price of its result under the model of the     *)
(* provider that made it (the ElevenLabs model when ElevenLabs made it,    *)
(* the requested OpenAI model otherwise); a positive charge under a key    *)
(* has one ledger entry, and the positive charges under no key have one    *)
(* ledger entry each.                                                      *)
(***************************************************************************)
C18_OneChargeAtProducersPrice ==
  \A r \in Returned :
    (IsSync(r) /\ r.ret = "200")
    => /\ r.reason = IF r.op = "transcribe" THEN "TRANSCRIBE" ELSE "DUB"
       /\ r.billedModel = ModelOf(r)
       /\ r.spend = PriceOf(r, ModelOf(r))
       /\ r.spend > 0
          => LedgerEntriesOf(r) =
               IF r.idempotencyKey # "none" THEN 1
               ELSE Copies(reqs, UnkeyedSuccesses(r))

C18_Witness ==
  \E r \in Returned :
    /\ r.op = "transcribe" /\ r.ret = "200"
    /\ Invoked(r) = <<"elevenLabs">>
    /\ r.billedModel = "elevenlabs-scribe"
    /\ r.spend = secondsToCredits(1)
    /\ LedgerEntriesOf(r) = 1
    /\ credits[r.deviceId] = Granted(r.deviceId) - r.spend

\* the request ended as cancelled, or as having run out of providers
CancelledOrExhausted(r) ==
  /\ IsSync(r) /\ r.pc = "done"
  /\ \/ r.ret = "408"
     \/ /\ r.ret = "500" /\ Len(r.calls) >= 1
        /\ \A i \in DOMAIN r.calls : IsError(r.calls[i].outcome)

IsTerminal(jobId) ==
  HasJob(jobId) /\ transcription_jobs[jobId].status \in {"completed", "failed"}

(***************************************************************************)
(* C12 as stated: once a job is completed, every step of a further         *)
(* completion callback for its jobId leaves the job's stored result and    *)
(* every balance as they are.                                              *)
(***************************************************************************)
C12_SecondCompleteIsNoOp ==
  [][\A q \in StepFrom :
       ( /\ q.op = "transcribeWebhook" /\ q.success
         /\ HasJob(q.jobId)
         /\ transcription_jobs[q.jobId].status = "completed" )
       => /\ transcription_jobs'[q.jobId].result =
               transcription_jobs[q.jobId].result
          /\ credits' = credits]_vars

(***************************************************************************)
(* C13 as stated: once a job's status is completed or failed, no step of   *)
(* any callback or request changes its status, its result or its error.    *)
(***************************************************************************)
C13_TerminalJobIsFinal ==
  [][\A j \in DOMAIN transcription_jobs :
       IsTerminal(j)
       => /\ transcription_jobs'[j].status = transcription_jobs[j].status
          /\ transcription_jobs'[j].result = transcription_jobs[j].result
          /\ transcription_jobs'[j].error = transcription_jobs[j].error]_vars

(***************************************************************************)
(* C20: a charge one of whose storage statements throws an error other     *)
(* than the idempotency key's unique-constraint violation and the forced   *)
(* NOT NULL rollback throws to its caller: the step in which the statement *)
(* throws ends the charge, and what the charge hands to its caller is the  *)
(* error, never true and never false.                                      *)
(***************************************************************************)
C20_StorageErrorIsThrown ==
  [][\A q \in BagToSet(reqs' (-) reqs) :
       (faults' = faults + 1 /\ q.op \in ChargeOps)
       => q.pc = "done" /\ q.ret = "throw"]_vars

\* a keyed charge whose batch threw has returned
C20_Witness ==
  /\ faults > 0
  /\ \E r \in Returned :
       /\ r.op = "updateBalanceIdempotent" /\ r.ret = "throw"
       /\ ~NothingToDeduct(r.spend)

\* the unkeyed charges of the account that have returned ret
ChargesOf(deviceId, ret) ==
  {r \in Returned :
     r.op = "updateBalance" /\ r.deviceId = deviceId /\ r.ret = ret}

(***************************************************************************)
(* C21: two unkeyed charges of a and b credits arrive on an account whose  *)
(* balance is B, with a <= B, b <= B and a + b > B, and their statements   *)
(* interleave in any order.  When both have returned, no storage statement *)
(* having thrown, exactly one of them has returned true and the balance is *)
(* B less the amount of that one.                                          *)
(***************************************************************************)
C21_OneOfTwoRacingChargesWins ==
  LET B == Granted("d1")
      all == {r \in Started : r.op = "updateBalance"}
      won == ChargesOf("d1", "true")
  IN  ( /\ faults = 0
        /\ InFlight = {}
        /\ Copies(reqs, all) = 2
        /\ \A r \in all : r.spend <= B
        /\ SumSpend(all) > B )
      => /\ Copies(reqs, won) = 1
         /\ Copies(reqs, ChargesOf("d1", "false")) = 1
         /\ \A w \in won : credits["d1"] = B - w.spend

\* two charges of 11 and 15 credits on a balance of 24 have returned
C21_Witness ==
  /\ faults = 0 /\ InFlight = {}
  /\ Granted("d1") = 24
  /\ \E w \in ChargesOf("d1", "true"), l \in ChargesOf("d1", "false") :
       /\ w.spend + l.spend > 24
       /\ w.spend < l.spend
       /\ credits["d1"] = 24 - w.spend

(***************************************************************************)
(* C22 as stated: in no state does a balance hold the credits of a grant   *)
(* whose ledger entry is missing.  On an account that is never reset only  *)
(* a grant raises the balance, and a charge lowers the balance no later    *)
(* than it writes its entry, so there the balance never exceeds the sum of *)
(* the account's ledger entries.                                           *)
(***************************************************************************)
C22_GrantIsAtomic ==
  \A d \in DOMAIN credits \ {ADMIN_DEVICE_ID} : credits[d] <= LedgerSum(d)

(***************************************************************************)
(* C23 as stated: a step that moves a job to completed finds it in         *)
(* processing; in particular a job awaiting its upload (pending_upload) is *)
(* not moved to completed by a completion callback.                        *)
(***************************************************************************)
C23_CompletesOnlyFromProcessing ==
  [][\A j \in DOMAIN transcription_jobs :
       ( /\ transcription_jobs'[j].status = "completed"
         /\ transcription_jobs[j].status # "completed" )
       => transcription_jobs[j].status = "processing"]_vars

(***************************************************************************)
(* C24 as stated: a request polling a job's result never submits work to   *)
(* the relay, and no step of such a request moves a job from processing    *)
(* back to queued.                                                         *)
(***************************************************************************)
C24_PollNeverDispatches ==
  [][\A r \in BagToSet(reqs' (-) reqs) :
       r.op = "result"
       => /\ \A i \in DOMAIN r.calls : r.calls[i].provider # "submit"
          /\ \A j \in DOMAIN translation_jobs :
               translation_jobs[j].status = "processing"
               => translation_jobs'[j].status # "queued"]_vars

\* the row of the job a returned poll asked for
PolledJob(r) ==
  IF r.op = "status" THEN transcription_jobs'[r.jobId]
                     ELSE translation_jobs'[r.jobId]

\* the poll has answered from the job's row
IsPollAnswer(r) ==
  /\ r.op \in {"status", "result"}
  /\ r.ret \notin {"403", "404"}
  /\ r.jobId \in (IF r.op = "status" THEN DOMAIN transcription_jobs'
                                     ELSE DOMAIN translation_jobs')

(***************************************************************************)
(* C25: in the step in which a poll of a job answers, the answer carries   *)
(* the job's stored result and no error if the job is completed, the job's *)
(* error and no result if it is failed, and neither result nor error if    *)
(* the job is in any other status.                                         *)
(***************************************************************************)
C25_PollAnswersByStatus ==
  [][\A r \in Finished :
       IsPollAnswer(r)
       => LET job == PolledJob(r)
          IN  /\ job.status = "completed"
                  => (r.body = job.result /\ r.body # "none"
                      /\ r.message = "none")
              /\ job.status = "failed"
                  => (r.body = "none" /\ r.message = job.error
                      /\ r.message # "none")
              /\ job.status \notin {"completed", "failed"}
                  => (r.body = "none" /\ r.message = "none")]_vars

\* a poll has answered with the error of a failed job
C25_Witness ==
  \E r \in Returned :
    /\ r.op = "status" /\ r.ret = "failed"
    /\ r.body = "none" /\ r.message # "none"
    /\ transcription_jobs[r.jobId].status = "failed"

(***************************************************************************)
(* C26: while the fan-out runs, the calls of the provider in flight are at *)
(* most min(FALLBACK_SEGMENT_CONCURRENCY, number of segments).             *)
(***************************************************************************)
C26_AtMostMaxConcurrencyInFlight ==
  fanout.pc = "running"
  => Cardinality(fanout.inflight)
       <= Min(FALLBACK_SEGMENT_CONCURRENCY, Len(fanout.segments))

\* four calls are in flight, one segment of five has its audio and none is
\* left to dispatch
C26_Witness ==
  /\ fanout.pc = "running"
  /\ Len(fanout.segments) = 5
  /\ Cardinality(fanout.inflight) = FALLBACK_SEGMENT_CONCURRENCY
  /\ Len(fanout.results) = 1

\* the list holds its positions by ascending index of their segments
Ascending(list, segments) ==
  \A i \in 1..(Len(list) - 1) : segments[list[i]] <= segments[list[i + 1]]

\* the list holds each position of segments once
OnePerSegment(list, segments) ==
  /\ Len(list) = Len(segments)
  /\ \A p \in DOMAIN segments : \E i \in DOMAIN list : list[i] = p

(***************************************************************************)
(* C27 as stated: when the fan-out returns, its results are in ascending   *)
(* order of their segments' index and hold one result for each input       *)
(* segment, in whatever order the calls settled.                           *)
(***************************************************************************)
C27_SortedOnePerSegment ==
  fanout.pc = "returned"
  => /\ Ascending(fanout.returned, fanout.segments)
     /\ OnePerSegment(fanout.returned, fanout.segments)

(***************************************************************************)
(* C28 as stated: once a call of the provider has failed, no worker takes  *)
(* a further segment: the calls in flight only settle.                     *)
(***************************************************************************)
C28_NoDispatchAfterError ==
  [][(fanout.pc = "running" /\ Len(fanout.errors) > 0)
       => fanout'.inflight \subseteq fanout.inflight]_vars

(***************************************************************************)
(* C29: a fan-out of which one or more calls failed ends by throwing the   *)
(* error that was caught first, and returns no results.                    *)
(***************************************************************************)
C29_FirstErrorIsThrown ==
  (fanout.pc \in {"thrown", "returned"} /\ Len(fanout.errors) > 0)
  => /\ fanout.pc = "thrown"
     /\ fanout.thrown = fanout.errors[1]
     /\ fanout.returned = << >>

\* two calls failed with different errors, other calls had returned their
\* audio, and the fan-out threw
C29_Witness ==
  /\ fanout.pc = "thrown"
  /\ Len(fanout.errors) >= 2
  /\ fanout.errors[1] # fanout.errors[Len(fanout.errors)]
  /\ Len(fanout.results) > 0

\* the rows a grant of the pack to the device leaves behind
GrantCommitted(deviceId, packId) ==
  /\ HasRow(deviceId)
  /\ \E row \in BagToSet(credit_ledger) :
       /\ row.device_id = deviceId
       /\ row.delta = packs[packId]
       /\ row.reason = GrantReason(packId, FALSE)

(***************************************************************************)
(* C30: the Stripe webhook marks an event processed only in the step after *)
(* its handler has returned, the handler's grant being in the balance and  *)
(* in the ledger; a delivery whose handler throws marks nothing and is     *)
(* answered with the error 500; and a delivery of an event that is not     *)
(* marked goes on to the handler.                                          *)
(***************************************************************************)
C30_MarkedOnlyAfterHandler ==
  [][/\ \A e \in processed_events' \ processed_events :
          \E r \in StepFrom :
            /\ r.op = "stripeWebhook" /\ r.eventId = e
            /\ At(r, "stripe:markEventProcessed")
            /\ faults' = faults
            /\ CreditsDevice(r) => GrantCommitted(r.deviceId, r.packId)
     /\ \A r \in StepFrom :
          (r.op = "stripeWebhook" /\ r.pc \in HandlerPcs /\ faults' > faults)
          => /\ UNCHANGED processed_events
             /\ [r EXCEPT !.pc = "done", !.ret = "500"] \in BagToSet(reqs')
     /\ \A r \in Arrived :
          (r.op = "stripeWebhook" /\ r.eventId \notin processed_events)
          => r.pc = IF CreditsDevice(r) THEN "creditDevice:upsert"
                    ELSE "stripe:markEventProcessed"]_vars

\* the handler of a delivery threw at the ledger row of its grant, the
\* delivery was answered 500 and the event is not marked; a second delivery
\* of the event is in its handler
C30_Witness ==
  \E r \in Returned, r2 \in InFlight :
    /\ r.op = "stripeWebhook" /\ r.ret = "500" /\ CreditsDevice(r)
    /\ r.eventId \notin processed_events
    /\ HasRow(r.deviceId) /\ credits[r.deviceId] = packs[r.packId]
    /\ LedgerSum(r.deviceId) = 0
    /\ r2.op = "stripeWebhook" /\ r2.eventId = r.eventId
    /\ At(r2, "creditDevice:upsert")

\* the committed ledger rows of one keyed charge
KeyedLedgerRows(deviceId, reason, key) ==
  {row \in BagToSet(Committed.ledger) :
     row.device_id = deviceId /\ row.reason = reason /\ row.key = key}

\* the committed idempotency records of one keyed charge
KeyedRecords(deviceId, reason, key) ==
  {row \in Committed.idem :
     /\ row.device_id = deviceId
     /\ row.reason = reason
     /\ row.idempotency_key = key}

\* sum(delta) of the committed ledger rows of one device
CommittedLedgerSum(deviceId) ==
  SumRows(Committed.ledger,
          {row \in BagToSet(Committed.ledger) : row.device_id = deviceId})

(***************************************************************************)
(* C31 as stated: in every committed state and for every (account, reason, *)
(* key), the idempotency record is there if and only if the ledger row of  *)
(* that charge is, with the record's spend, and every balance is the sum   *)
(* of its account's ledger: the decrement is committed with the two rows.  *)
(* Storage faults hit any statement, on the batch path and on the          *)
(* BEGIN/COMMIT path.                                                      *)
(***************************************************************************)
C31_RecordIffChargeCommitted ==
  /\ \A d \in Devices, reason \in {"TRANSCRIBE", "DUB"}, k \in Keys :
       /\ KeyedRecords(d, reason, k) # {}
            <=> KeyedLedgerRows(d, reason, k) # {}
       /\ \A rec \in KeyedRecords(d, reason, k) :
            \A row \in KeyedLedgerRows(d, reason, k) :
              /\ row.delta = -rec.spend
              /\ CopiesIn(row, Committed.ledger) = 1
  /\ \A d \in DOMAIN Committed.credits :
       Committed.credits[d] = CommittedLedgerSum(d)

\* the committed tables after the batch of charge q has committed
ChargeCommitted(q) ==
  [credits |-> [Committed.credits EXCEPT ![q.deviceId] = @ - q.spend],
   ledger |-> recordLedger(Committed.ledger, q.deviceId, -q.spend, q.reason,
                           q.idempotencyKey),
   idem |-> Committed.idem \cup
              {IdempotencyRow(q.deviceId, q.reason, q.idempotencyKey,
                              q.spend)}]

\* the committed balance of the account of q covers its spend
Covered(q) ==
  /\ q.deviceId \in DOMAIN Committed.credits
  /\ Committed.credits[q.deviceId] >= q.spend

(***************************************************************************)
(* C32 as stated: on either path a keyed charge returns what the batch     *)
(* returns and commits what the batch commits, also while another keyed    *)
(* charge runs on the same handle.  Where no storage statement throws, a   *)
(* charge that returns finds its record committed and returns true,        *)
(* committing nothing; or it finds its spend covered, returns true and     *)
(* commits the record, the decrement and the ledger row together; or it    *)
(* returns false and commits nothing; and no other step changes what is    *)
(* committed.                                                              *)
(***************************************************************************)
C32_FallbackAsBatch ==
  [][faults' = 0 =>
       /\ \A q \in Finished :
            q.op = "updateBalanceIdempotent" =>
              IF KeyedRecords(q.deviceId, q.reason, q.idempotencyKey) # {}
                THEN q.ret = "true" /\ Committed' = Committed
              ELSE IF Covered(q)
                THEN q.ret = "true" /\ Committed' = ChargeCommitted(q)
              ELSE q.ret = "false" /\ Committed' = Committed
       /\ Finished = {} => Committed' = Committed]_vars

(***************************************************************************)
(* C33 as stated: a process request marks a job processing, and calls the  *)
(* relay for it, only while the job is pending_upload, whatever process    *)
(* requests and callbacks for the job interleave; so at most one process   *)
(* request per job answers that processing has started.                    *)
(***************************************************************************)
C33_ProcessingOnlyFromPending ==
  [][/\ \A r \in StepFrom :
          (At(r, "process:setTranscriptionJobProcessing") /\ faults' = faults)
          => transcription_jobs[r.jobId].status = "pending_upload"
     /\ \A j \in DOMAIN transcription_jobs' :
          Copies(reqs', {q \in BagToSet(reqs') :
                           /\ q.op = "process" /\ q.jobId = j
                           /\ Returns(q, "processing")}) <= 1]_vars

\* the ledger rows of the charges for translations
TranslateRows == {row \in BagToSet(credit_ledger) : row.reason = "TRANSLATE"}

(***************************************************************************)
(* C34 as stated: a translation job is charged at most once, whatever the  *)
(* submit path and the result polls that see the relay report the job      *)
(* completed do in between each other: the ledger holds no more charges    *)
(* for translations than there are translation jobs.                       *)
(***************************************************************************)
C34_TranslationChargedOnce ==
  Copies(credit_ledger, TranslateRows) <= Cardinality(DOMAIN translation_jobs)

\* a request has decremented the balance for the translation job
TranslationCharged(jobId) ==
  \E r \in BagToSet(reqs') :
    /\ r.op \in TranslateOps /\ r.jobId = jobId
    /\ r.ok \/ At(r, "updateBalance:ledger")

(***************************************************************************)
(* C35 as stated: a poll answers with a translation job's result only if   *)
(* the charge for that job has been committed, also when it reads the job  *)
(* while another request is between storing the result and charging.       *)
(***************************************************************************)
C35_NoResultBeforeCharge ==
  [][\A q \in BagToSet(reqs' (-) reqs) :
       (q.op = "result" /\ Returns(q, "200") /\ q.body # "none")
       => TranslationCharged(q.jobId)]_vars

(***************************************************************************)
(* C36 as stated: once the signal has aborted no worker takes a further    *)
(* segment, and the fan-out does not return, as a success, a list that     *)
(* lacks the result of a segment.                                          *)
(***************************************************************************)
C36_AbortIsCancellation ==
  [][/\ (fanout.pc = "running" /\ fanout.aborted)
          => fanout'.inflight \subseteq fanout.inflight
     /\ (fanout'.pc = "returned" /\ fanout'.aborted)
          => OnePerSegment(fanout'.returned, fanout'.segments)]_vars

\* the committed records of other charges under the key of q: another
\* account's, or another reason's
SharedKeyRecords(q) ==
  {rec \in Committed.idem :
     /\ rec.idempotency_key = q.idempotencyKey
     /\ rec.device_id # q.deviceId \/ rec.reason # q.reason}

(***************************************************************************)
(* C37: a keyed charge whose key is already recorded for another account   *)
(* or for another reason is not a duplicate.  On the db.batch path, where   *)
(* no storage statement throws, such a charge with its spend covered and   *)
(* no record of its own returns true and commits its own record, its own   *)
(* account's decrement and its own ledger row, leaving the other charge's  *)
(* account and rows as they were; and no (account, reason, key) ever has   *)
(* more than one ledger row.                                               *)
(***************************************************************************)
C37_SharedKeyIndependent ==
  [][hasBatch /\ faults' = 0 =>
       /\ \A q \in Finished :
            /\ q.op = "updateBalanceIdempotent"
            /\ SharedKeyRecords(q) # {}
            /\ KeyedRecords(q.deviceId, q.reason, q.idempotencyKey) = {}
            /\ Covered(q)
            => /\ q.ret = "true"
               /\ Committed' = ChargeCommitted(q)
               /\ \A d \in DOMAIN Committed.credits \ {q.deviceId} :
                    Committed'.credits[d] = Committed.credits[d]
       /\ \A d \in Devices, reason \in {"TRANSCRIBE", "DUB"}, k \in Keys :
            \A row \in KeyedLedgerRows(d, reason, k)' :
              CopiesIn(row, Committed'.ledger) = 1
                /\ Cardinality(KeyedLedgerRows(d, reason, k)') = 1]_vars

\* two charges under one key, of two accounts, have both returned true on
\* the batch path, each recorded and each account charged its own spend
C37_Witness ==
  /\ hasBatch
  /\ \E q1, q2 \in Returned :
       /\ q1.op = "updateBalanceIdempotent"
       /\ q2.op = "updateBalanceIdempotent"
       /\ q1.idempotencyKey = q2.idempotencyKey
       /\ q1.deviceId # q2.deviceId
       /\ q1.ret = "true" /\ q2.ret = "true"
       /\ KeyedRecords(q1.deviceId, q1.reason, q1.idempotencyKey) # {}
       /\ KeyedRecords(q2.deviceId, q2.reason, q2.idempotencyKey) # {}
       /\ credits[q1.deviceId] = packs["HOUR_5"] - q1.spend
       /\ credits[q2.deviceId] = packs["HOUR_5"] - q2.spend

\* the job is processing and a process request for it has answered 500
DispatchFailed(jobId) ==
  /\ HasJob(jobId)
  /\ transcription_jobs[jobId].status = "processing"
  /\ \E r \in Returned :
       r.op = "process" /\ r.jobId = jobId /\ r.ret = "500"

\* the job is processing and the relay's callback for it has arrived
CallbackDelivered(jobId) ==
  /\ HasJob(jobId)
  /\ transcription_jobs[jobId].status = "processing"
  /\ \E r \in InFlight : r.op = "transcribeWebhook" /\ r.jobId = jobId

JobEnded(jobId) ==
  /\ HasJob(jobId)
  /\ transcription_jobs[jobId].status \in {"completed", "failed"}

(***************************************************************************)
(* C38 as stated: a job that is processing when its process request has    *)
(* answered 500, the dispatch having failed, or when the relay's callback  *)
(* for it has arrived, is completed or failed later on.                    *)
(***************************************************************************)
C38_ProcessingEnds ==
  \A jobId \in JobIds :
    /\ DispatchFailed(jobId) ~> JobEnded(jobId)
    /\ CallbackDelivered(jobId) ~> JobEnded(jobId)

\* the admin resets of one account, each call counted
ResetsOf(deviceId) ==
  Copies(reqs, {r \in Started : /\ r.op = "resetCreditsToZero"
                                /\ r.deviceId = deviceId})

(***************************************************************************)
(* C39 as stated: one admin reset of an account and charges or grants on   *)
(* the same account, in any interleaving: once all of them have returned,  *)
(* none reporting a storage fault, the account's balance is the sum of the *)
(* deltas of its ledger entries.                                           *)
(***************************************************************************)
C39_ResetKeepsLedgerSum ==
  \A d \in Devices :
    ( /\ Quiescent
      /\ NoFaultReported
      /\ ResetsOf(d) = 1
      /\ \E q \in Returned :
           q.deviceId = d /\ (IsGrant(q) \/ IsCharge(q)) )
    => (IF HasRow(d) THEN credits[d] ELSE 0) = LedgerSum(d)

\* no segment has a result twice, nor a result and a call in flight
DispatchedOnce ==
  fanout.pc = "running"
  => /\ \A i, j \in DOMAIN fanout.results :
          fanout.results[i] = fanout.results[j] => i = j
     /\ \A i \in DOMAIN fanout.results :
          fanout.results[i] \notin fanout.inflight
     /\ Len(fanout.results) + Len(fanout.errors)
          + Cardinality(fanout.inflight)
          = Min(fanout.cursor, Len(fanout.segments))

(***************************************************************************)
(* C40: every call of the provider returning or throwing, a fan-out that   *)
(* has started ends, thrown or returned, all its workers having exited;    *)
(* and no segment is dispatched twice: the calls settled and in flight are *)
(* as many as the cursor has handed out, each for another segment.         *)
(***************************************************************************)
C40_FanOutTerminates ==
  /\ [][DispatchedOnce']_vars
  /\ (fanout.pc = "running") ~> (fanout.pc \in {"thrown", "returned"})

\* a fan-out of five segments has returned a result for each: a worker has
\* gone round its loop and exited at the end of the list
C40_Witness ==
  /\ fanout.pc = "returned"
  /\ Len(fanout.segments) = 5
  /\ Len(fanout.returned) = 5
  /\ fanout.inflight = {}

====
